---------------------------- MODULE Spec2Model ----------------------------
(***************************************************************************)
(* A model of tokio-timer's hashed timing wheel: the wheel over its slab   *)
(* (src/src/wheel.rs), the worker thread and its two queues                *)
(* (src/src/worker.rs, src/src/mpmc.rs) and the producer side futures      *)
(* Sleep, Timeout and TimeoutStream (src/src/timer.rs).                    *)
(*                                                                         *)
(* Instants are integers: milliseconds since the wheel's `start`.          *)
(* Option<T> is a sequence of length 0 (None) or 1 (Some).                 *)
(***************************************************************************)
EXTENDS Integers, Sequences, FiniteSets, TLC

(***************************************************************************)
(* Configuration (the Builder's settings) and the bounds of the model.     *)
(***************************************************************************)
\* Builder::tick_duration, in ms.
TickMs == 2
\* Builder::num_slots; Wheel::new asserts it is a power of two.
NumSlots == 2
\* Builder::channel_capacity: the capacity asked of both queues.
ChannelCapacity == 2
\* Builder::initial_capacity (before the max with the channel capacity).
InitialCapacity == 2
\* Builder::max_capacity.
MaxCapacity == 5
\* Builder::max_timeout, in ms.
MaxTimeoutMs == 4

\* The clock stops at this instant.
MaxTime == 8
\* The instant the clock stops at when the wheel is driven directly.
MaxWheelTime == 6
\* The longest duration a producer asks for.
MaxDur == 5
\* The most cells in use at once when the wheel is driven directly.
MaxHeld == 3
\* How many Sleeps a producer creates over its life.
MaxSleeps == 1
\* How many values the inner stream of a TimeoutStream yields.
MaxItems == 1
\* How many Sleeps the producer that fills the set-queue creates, and how
\* far the clock runs meanwhile.
MaxRenew == 3
MaxRenewTime == 4
\* How far the clock runs while tokens go round the set-queue.
MaxReuseTime == 4
\* The largest initial_capacity and max_capacity a Builder is given, the
\* most cells in use at once under such a Builder, and how far the clock
\* runs meanwhile.
MaxConfig == 3
MaxGrowCells == 4
MaxGrowTime == 2
\* How many calls of push_exch (or push) each producer makes and how many
\* calls of pop_exch (or pop) the consumer makes when the queue operations
\* are followed access by access.
MaxPushes == 3
MaxPops == 4

None == << >>
Some(x) == << x >>
IsSome(o) == Len(o) = 1
Unwrap(o) == o[1]
UnwrapOr(o, d) == IF Len(o) = 1 THEN o[1] ELSE d

\* const EMPTY: Token = Token(usize::MAX); any value that is no slab index.
EMPTY == -1

(***************************************************************************)
(* slab::Slab (slab 0.3): a vector of slots, the vacant ones chained in a  *)
(* LIFO free list through `next`.  entries is a function on 0..cap-1.      *)
(***************************************************************************)
SlabCap(s) == Cardinality(DOMAIN s.entries)

EmptyCell(n) == [kind |-> "Empty", next |-> n]

SlabWithCapacity(cap) ==
    [entries |-> [i \in 0 .. cap - 1 |-> EmptyCell(i + 1)], len |-> 0, next |-> 0]

SlabHasVacant(s) == s.next < SlabCap(s)

SlabAvailable(s) == SlabCap(s) - s.len

SlabFilled(s, t) == t \in DOMAIN s.entries /\ s.entries[t].kind # "Empty"

\* insert: fills the head of the free list (the caller checked HasVacant).
SlabInsert(s, val) ==
    [entries |-> [s.entries EXCEPT ![s.next] = val],
     len |-> s.len + 1,
     next |-> s.entries[s.next].next]

SlabRemoveKeepsLen(s, t) ==
    IF SlabFilled(s, t)
    THEN [entries |-> [s.entries EXCEPT ![t] = EmptyCell(s.next)],
          len |-> s.len,
          next |-> t]
    ELSE s

\* remove: None for an index out of range or vacant; else pushes the cell
\* on the free list.
SlabRemove(s, t) ==
    IF SlabFilled(s, t)
    THEN [entries |-> [s.entries EXCEPT ![t] = EmptyCell(s.next)],
          len |-> s.len - 1,
          next |-> t]
    ELSE s

SlabReserveExact(s, amt) ==
    LET cap == SlabCap(s)
    IN  [s EXCEPT !.entries =
            [i \in 0 .. cap + amt - 1 |->
                IF i < cap THEN s.entries[i] ELSE EmptyCell(i + 1)]]

(***************************************************************************)
(* Wheel                                                                   *)
(***************************************************************************)
RECURSIVE BitAnd(_, _)
BitAnd(a, b) ==
    IF a = 0 \/ b = 0 THEN 0
    ELSE (a % 2) * (b % 2) + 2 * BitAnd(a \div 2, b \div 2)

Min(a, b) == IF a <= b THEN a ELSE b
Max(a, b) == IF a >= b THEN a ELSE b

\* Builder::get_initial_capacity
GetInitialCapacity == Max(InitialCapacity, ChannelCapacity)

\* Wheel::new
WheelNew ==
    [wheel |-> [i \in 0 .. NumSlots - 1 |-> [head |-> EMPTY, next_timeout |-> None]],
     slab |-> SlabWithCapacity(GetInitialCapacity),
     start |-> 0,
     cur_wheel_tick |-> 0,
     cur_slab_idx |-> EMPTY,
     max_capacity |-> MaxCapacity,
     tick_ms |-> TickMs,
     mask |-> NumSlots - 1]

\* Wheel::available
Available(w) == SlabAvailable(w.slab)

\* Wheel::time_to_ticks: whole milliseconds since start, divided by tick_ms.
time_to_ticks(w, time) == (time - w.start) \div w.tick_ms

\* Wheel::ticks_to_wheel_idx
ticks_to_wheel_idx(w, ticks) == BitAnd(ticks, w.mask)

\* Wheel::reserve: the amount the slab grows by when it is full.  With
\* len > max_capacity the usize subtraction either panics (overflow checks
\* on; the caller's step models that) or wraps to 2^64 - (len -
\* max_capacity), which is more than len.
ReserveAmt(w) ==
    IF w.slab.len > w.max_capacity THEN w.slab.len
    ELSE Min(w.slab.len, w.max_capacity - w.slab.len)

\* Wheel::reserve: `self.max_capacity - amt` overflows.
ReserveOverflows(w) == ~SlabHasVacant(w.slab) /\ w.slab.len > w.max_capacity

\* Wheel::reserve: Some(token) or None.
ReserveToken(w) ==
    IF ~SlabHasVacant(w.slab) /\ ReserveAmt(w) = 0 THEN None
    ELSE Some(w.slab.next)

\* Wheel::reserve: the wheel afterwards.
Reserve(w) ==
    IF ~SlabHasVacant(w.slab)
    THEN IF ReserveAmt(w) = 0 THEN w
         ELSE [w EXCEPT !.slab =
                 SlabInsert(SlabReserveExact(w.slab, ReserveAmt(w)), [kind |-> "Reserved"])]
    ELSE [w EXCEPT !.slab = SlabInsert(w.slab, [kind |-> "Reserved"])]

ReleaseNothing(w, token) == w

\* Wheel::release
Release(w, token) == [w EXCEPT !.slab = SlabRemove(w.slab, token)]

IsTimeout(w, t) == SlabFilled(w.slab, t) /\ w.slab.entries[t].kind = "Timeout"

PlaceTickNoDefer(w, at) == time_to_ticks(w, at)

PlaceTickDefersToCurrent(w, at) ==
    IF time_to_ticks(w, at) <= w.cur_wheel_tick
    THEN w.cur_wheel_tick
    ELSE time_to_ticks(w, at)

\* Wheel::set_timeout: the tick the request is placed at (defer-to-next).
PlaceTick(w, at) ==
    IF time_to_ticks(w, at) <= w.cur_wheel_tick
    THEN w.cur_wheel_tick + 1
    ELSE time_to_ticks(w, at)

ActualTickBefore(w, tick) == w.start + w.tick_ms * (tick - 1)

\* Wheel::set_timeout: actual_tick, the instant stored as `when`.
ActualTick(w, tick) == w.start + w.tick_ms * tick

\* Wheel::set_timeout.  `sid` is a history field naming the Sleep that made
\* the request; no operation reads it.
set_timeout(w, token, at0, task, sid) ==
    LET tick == PlaceTick(w, at0)
        wheel_idx == ticks_to_wheel_idx(w, tick)
        at == ActualTick(w, tick)
        prev_head == w.wheel[wheel_idx].head
        e1 == [w.slab.entries EXCEPT ![token] =
                 [kind |-> "Timeout", task |-> task, when |-> at,
                  wheel_idx |-> wheel_idx, prev |-> EMPTY, next |-> prev_head,
                  sid |-> sid]]
        e2 == IF prev_head # EMPTY
              THEN [e1 EXCEPT ![prev_head].prev = token]
              ELSE e1
        nt == IF at <= UnwrapOr(w.wheel[wheel_idx].next_timeout, at)
              THEN Some(at)
              ELSE w.wheel[wheel_idx].next_timeout
    IN  [w EXCEPT !.wheel[wheel_idx] = [head |-> token, next_timeout |-> nt],
                  !.slab.entries = e2]

remove_slabKeepsCursor(w, slab_idx) ==
    IF ~SlabFilled(w.slab, slab_idx) THEN w
    ELSE
      LET entry == w.slab.entries[slab_idx]
          s1 == SlabRemove(w.slab, slab_idx)
      IN  IF entry.kind # "Timeout" THEN [w EXCEPT !.slab = s1]
          ELSE
            LET wheel1 == IF entry.prev = EMPTY
                          THEN [w.wheel EXCEPT ![entry.wheel_idx].head = entry.next]
                          ELSE w.wheel
                e1 == IF entry.prev = EMPTY THEN s1.entries
                      ELSE [s1.entries EXCEPT ![entry.prev].next = entry.next]
                e2 == IF entry.next # EMPTY
                      THEN [e1 EXCEPT ![entry.next].prev = entry.prev]
                      ELSE e1
            IN  [w EXCEPT !.wheel = wheel1,
                          !.slab = [s1 EXCEPT !.entries = e2]]

remove_slabKeepsPrev(w, slab_idx) ==
    IF ~SlabFilled(w.slab, slab_idx) THEN w
    ELSE
      LET entry == w.slab.entries[slab_idx]
          s1 == SlabRemove(w.slab, slab_idx)
      IN  IF entry.kind # "Timeout" THEN [w EXCEPT !.slab = s1]
          ELSE
            LET wheel1 == IF entry.prev = EMPTY
                          THEN [w.wheel EXCEPT ![entry.wheel_idx].head = entry.next]
                          ELSE w.wheel
                e1 == IF entry.prev = EMPTY THEN s1.entries
                      ELSE [s1.entries EXCEPT ![entry.prev].next = entry.next]
            IN  [w EXCEPT !.wheel = wheel1,
                          !.slab = [s1 EXCEPT !.entries = e1],
                          !.cur_slab_idx = IF w.cur_slab_idx = slab_idx
                                           THEN entry.next
                                           ELSE w.cur_slab_idx]

\* Wheel::remove_slab (the entry removed is w.slab.entries[slab_idx] before).
remove_slab(w, slab_idx) ==
    IF ~SlabFilled(w.slab, slab_idx) THEN w
    ELSE
      LET entry == w.slab.entries[slab_idx]
          s1 == SlabRemove(w.slab, slab_idx)
      IN  IF entry.kind # "Timeout" THEN [w EXCEPT !.slab = s1]
          ELSE
            LET wheel1 == IF entry.prev = EMPTY
                          THEN [w.wheel EXCEPT ![entry.wheel_idx].head = entry.next]
                          ELSE w.wheel
                e1 == IF entry.prev = EMPTY THEN s1.entries
                      ELSE [s1.entries EXCEPT ![entry.prev].next = entry.next]
                e2 == IF entry.next # EMPTY
                      THEN [e1 EXCEPT ![entry.next].prev = entry.prev]
                      ELSE e1
            IN  [w EXCEPT !.wheel = wheel1,
                          !.slab = [s1 EXCEPT !.entries = e2],
                          !.cur_slab_idx = IF w.cur_slab_idx = slab_idx
                                           THEN entry.next
                                           ELSE w.cur_slab_idx]

IsDueAnyLap(w, head_timeout, at) == TRUE

\* Wheel::poll: the test that fires an entry (time_to_ticks on both sides).
IsDue(w, head_timeout, at) == time_to_ticks(w, head_timeout) <= time_to_ticks(w, at)

RECURSIVE pollResyncs(_, _)
pollResyncs(w, at) ==
    LET wheel_tick == time_to_ticks(w, at)
        head == w.cur_slab_idx
        idx == ticks_to_wheel_idx(w, w.cur_wheel_tick)
    IN  IF ~(w.cur_wheel_tick <= wheel_tick)
        THEN [w |-> [w EXCEPT !.cur_wheel_tick = wheel_tick + 1,
                              !.cur_slab_idx =
                                 w.wheel[ticks_to_wheel_idx(w, wheel_tick + 1)].head],
              task |-> None, fired |-> None]
        ELSE IF head = EMPTY
        THEN LET w1 == IF head = w.wheel[idx].head
                       THEN [w EXCEPT !.wheel[idx].next_timeout = None]
                       ELSE w
                 idx2 == ticks_to_wheel_idx(w, w.cur_wheel_tick + 1)
             IN  pollResyncs([w1 EXCEPT !.cur_wheel_tick = w.cur_wheel_tick + 1,
                                        !.cur_slab_idx = w1.wheel[idx2].head], at)
        ELSE LET w1 == IF head = w.wheel[idx].head
                       THEN [w EXCEPT !.wheel[idx].next_timeout = None]
                       ELSE w
                 timeout == w.slab.entries[head]
                 head_timeout == timeout.when
                 w2 == [w1 EXCEPT !.cur_slab_idx = timeout.next]
             IN  IF IsDue(w, head_timeout, at)
                 THEN [w |-> remove_slab(w2, head),
                       task |-> Some(timeout.task),
                       fired |-> Some(timeout)]
                 ELSE LET next == UnwrapOr(w2.wheel[idx].next_timeout, head_timeout)
                      IN  pollResyncs(IF head_timeout <= next
                                      THEN [w2 EXCEPT !.wheel[idx].next_timeout = Some(head_timeout)]
                                      ELSE w2, at)

\* Wheel::poll: the loop, up to its return.  The result is the wheel and
\* the Option<Task> returned, with the fired entry for the history.
RECURSIVE poll(_, _)
poll(w, at) ==
    LET wheel_tick == time_to_ticks(w, at)
        head == w.cur_slab_idx
        idx == ticks_to_wheel_idx(w, w.cur_wheel_tick)
    IN  IF ~(w.cur_wheel_tick <= wheel_tick)
        THEN [w |-> w, task |-> None, fired |-> None]
        ELSE IF head = EMPTY
        THEN LET w1 == IF head = w.wheel[idx].head
                       THEN [w EXCEPT !.wheel[idx].next_timeout = None]
                       ELSE w
                 idx2 == ticks_to_wheel_idx(w, w.cur_wheel_tick + 1)
             IN  poll([w1 EXCEPT !.cur_wheel_tick = w.cur_wheel_tick + 1,
                                 !.cur_slab_idx = w1.wheel[idx2].head], at)
        ELSE LET w1 == IF head = w.wheel[idx].head
                       THEN [w EXCEPT !.wheel[idx].next_timeout = None]
                       ELSE w
                 timeout == w.slab.entries[head]
                 head_timeout == timeout.when
                 w2 == [w1 EXCEPT !.cur_slab_idx = timeout.next]
             IN  IF IsDue(w, head_timeout, at)
                 THEN [w |-> remove_slab(w2, head),
                       task |-> Some(timeout.task),
                       fired |-> Some(timeout)]
                 ELSE LET next == UnwrapOr(w2.wheel[idx].next_timeout, head_timeout)
                      IN  poll(IF head_timeout <= next
                               THEN [w2 EXCEPT !.wheel[idx].next_timeout = Some(head_timeout)]
                               ELSE w2, at)

RECURSIVE NextTimeoutUpToLatest(_, _)
NextTimeoutUpToLatest(w, i) ==
    IF i = 0 THEN None
    ELSE LET min == NextTimeoutUpToLatest(w, i - 1)
             a == w.wheel[i - 1].next_timeout
         IN  IF ~IsSome(a) THEN min
             ELSE IF IsSome(min) /\ Unwrap(min) > Unwrap(a) THEN min
             ELSE a

\* Wheel::next_timeout: the fold over the slots 0 .. i-1.
RECURSIVE NextTimeoutUpTo(_, _)
NextTimeoutUpTo(w, i) ==
    IF i = 0 THEN None
    ELSE LET min == NextTimeoutUpTo(w, i - 1)
             a == w.wheel[i - 1].next_timeout
         IN  IF ~IsSome(a) THEN min
             ELSE IF IsSome(min) /\ Unwrap(min) < Unwrap(a) THEN min
             ELSE a

next_timeout(w) == NextTimeoutUpTo(w, NumSlots)

move_timeoutAnyWhen(w, token, when, task) ==
    IF IsTimeout(w, token)
    THEN [w EXCEPT !.slab.entries[token].task = task]
    ELSE w

\* Wheel::move_timeout
move_timeout(w, token, when, task) ==
    IF IsTimeout(w, token) /\ w.slab.entries[token].when = when
    THEN [w EXCEPT !.slab.entries[token].task = task]
    ELSE w

cancelAnyWhen(w, token, when) ==
    IF IsTimeout(w, token) THEN remove_slab(w, token) ELSE w

\* Wheel::cancel
cancel(w, token, when) ==
    IF IsTimeout(w, token) /\ w.slab.entries[token].when = when
    THEN remove_slab(w, token)
    ELSE w

(***************************************************************************)
(* The set-queue (worker.rs, mod exchange): a Vyukov ring whose slots hold *)
(* SetTimeout::Token(token) or SetTimeout::Timeout(token, instant, task).  *)
(* push_exch and pop_exch are taken as atomic steps here.                  *)
(***************************************************************************)
RECURSIVE NextPowerOfTwo(_, _)
NextPowerOfTwo(n, p) == IF p >= n THEN p ELSE NextPowerOfTwo(n, 2 * p)

\* State::with_capacity: the capacity rounded up to a power of two >= 2.
RoundCapacity(capacity) ==
    IF capacity < 2 \/ BitAnd(capacity, capacity - 1) # 0
    THEN IF capacity < 2 THEN 2 ELSE NextPowerOfTwo(capacity, 1)
    ELSE capacity

\* The wheel after init() ran n times (each call is wheel.reserve().unwrap()).
RECURSIVE ReserveTimes(_, _)
ReserveTimes(w, n) == IF n = 0 THEN w ELSE Reserve(ReserveTimes(w, n - 1))

\* State::with_capacity: slot i holds the token of the (i+1)-th reserve.
ExchangeWithCapacity(capacity, w) ==
    LET cap == RoundCapacity(capacity)
    IN  [buffer |-> [i \in 0 .. cap - 1 |->
                       [sequence |-> i,
                        value |-> [kind |-> "Token",
                                   token |-> Unwrap(ReserveToken(ReserveTimes(w, i)))]]],
         mask |-> cap - 1,
         enqueue_pos |-> 0,
         dequeue_pos |-> 0]

push_exchWrongSlot(q, instant, task, sid) ==
    LET pos == q.enqueue_pos
        i == BitAnd(pos, q.mask)
        node == q.buffer[BitAnd(pos + 1, q.mask)]
        diff == q.buffer[i].sequence - pos
    IN  IF diff = 0
        THEN [q |-> [q EXCEPT !.enqueue_pos = pos + 1,
                              !.buffer[i] =
                                 [sequence |-> pos + 1,
                                  value |-> [kind |-> "Timeout",
                                             token |-> node.value.token,
                                             when |-> instant,
                                             task |-> task,
                                             sid |-> sid]]],
              ok |-> TRUE, token |-> node.value.token]
        ELSE [q |-> q, ok |-> FALSE, token |-> EMPTY]

push_exchNoFullCheck(q, instant, task, sid) ==
    LET pos == q.enqueue_pos
        i == BitAnd(pos, q.mask)
        node == q.buffer[i]
    IN  [q |-> [q EXCEPT !.enqueue_pos = pos + 1,
                         !.buffer[i] =
                            [sequence |-> pos + 1,
                             value |-> [kind |-> "Timeout",
                                        token |-> node.value.token,
                                        when |-> instant,
                                        task |-> task,
                                        sid |-> sid]]],
         ok |-> TRUE, token |-> node.value.token]

\* State::push_exch: [q, ret]; ret is Ok(token) or Err(task).
push_exch(q, instant, task, sid) ==
    LET pos == q.enqueue_pos
        i == BitAnd(pos, q.mask)
        node == q.buffer[i]
        diff == node.sequence - pos
    IN  IF diff = 0
        THEN [q |-> [q EXCEPT !.enqueue_pos = pos + 1,
                              !.buffer[i] =
                                 [sequence |-> pos + 1,
                                  value |-> [kind |-> "Timeout",
                                             token |-> node.value.token,
                                             when |-> instant,
                                             task |-> task,
                                             sid |-> sid]]],
              ok |-> TRUE, token |-> node.value.token]
        ELSE [q |-> q, ok |-> FALSE, token |-> EMPTY]

pop_exchKeepsToken(q, next_token) ==
    LET pos == q.dequeue_pos
        i == BitAnd(pos, q.mask)
        node == q.buffer[i]
        diff == node.sequence - (pos + 1)
    IN  IF diff = 0
        THEN [q |-> [q EXCEPT !.dequeue_pos = pos + 1,
                              !.buffer[i] =
                                 [sequence |-> pos + q.mask + 1,
                                  value |-> [kind |-> "Token", token |-> node.value.token]]],
              ok |-> TRUE, value |-> node.value]
        ELSE [q |-> q, ok |-> FALSE, value |-> node.value]

\* State::pop_exch: [q, ok, value]; value is the Pending triple on Ok.
pop_exch(q, next_token) ==
    LET pos == q.dequeue_pos
        i == BitAnd(pos, q.mask)
        node == q.buffer[i]
        diff == node.sequence - (pos + 1)
    IN  IF diff = 0
        THEN [q |-> [q EXCEPT !.dequeue_pos = pos + 1,
                              !.buffer[i] =
                                 [sequence |-> pos + q.mask + 1,
                                  value |-> [kind |-> "Token", token |-> next_token]]],
              ok |-> TRUE, value |-> node.value]
        ELSE [q |-> q, ok |-> FALSE, value |-> node.value]

(***************************************************************************)
(* The mod-queue (mpmc::Queue<ModTimeout>): bounded FIFO of Move(token,    *)
(* when, task) and Cancel(token, when).                                    *)
(***************************************************************************)
ModCapacity == RoundCapacity(ChannelCapacity)

ModPushOkAlways(q) == Len(q) <= ModCapacity

\* Queue::push: Ok, or the value handed back when the ring is full.
ModPushOk(q) == Len(q) < ModCapacity

ModPushDropOldest(q, msg) ==
    IF ModPushOk(q) THEN Append(q, msg) ELSE Append(Tail(q), msg)

ModPush(q, msg) == IF ModPushOk(q) THEN Append(q, msg) ELSE q

\* Queue::pop
ModPop(q) == Tail(q)

(***************************************************************************)
(* State                                                                   *)
(***************************************************************************)
\* The producers (each owns one Sleep at a time) and the tasks that poll.
Producers == {1, 2}
Tasks == {1, 2}

\* Worker::tolerance: the tick duration.
Tolerance == TickMs

\* Worker::max_timeout
MaxTimeout == MaxTimeoutMs

VARIABLES
    now,    \* the clock: Instant::now(), in ms since the wheel's start
    wh,     \* the Wheel, owned by the worker thread
    sq,     \* the set-queue (Exchange)
    mq,     \* the mod-queue
    wk,     \* the worker thread: its place in run(), its `now`, its park state
    sl,     \* the producers' Sleeps
    note,   \* history: the notification the worker's last step made, if any
    fired,  \* history: the Sleeps whose entry the worker has notified
    cancelled, \* history: the Sleeps whose Cancel the worker popped while
               \* their entry was still linked in the wheel
    moved,  \* history: for each Sleep, the task of the last Move the worker
            \* popped while the Sleep's entry was linked in the wheel
    stale,  \* history: the triples (sender, holder, kind) such that the
            \* worker popped the sender's Cancel or Move after the sender's
            \* entry had fired, the token then carrying the holder's timeout,
            \* with the kind of the message
    kept,   \* history: the Sleeps whose request was in the set-queue when a
            \* wheel.reserve() of the worker's set loop returned None
    timer,  \* the user's Timer handle exists (Sleeps hold clones of their own)
    th,     \* the threads inside push_exch / pop_exch or push / pop when these
            \* calls are followed access by access: their locals and history
    last,   \* history: the last call made on the wheel when it is driven directly
    ad      \* the one Timeout<F> or TimeoutStream<S> and the Sleep it owns

vars == << now, wh, sq, mq, wk, sl, note, fired, cancelled, moved, stale, kept, timer, th, last, ad >>

NoCall == [op |-> "-", at |-> 0, ret |-> "-"]

\* The queue operations are atomic steps: no thread stands inside one.
NoThreads == << >>

\* `renotify` is a history field: the last poll notified its own task.
NoSleep ==
    [state |-> "none", when |-> 0, handle |-> None, gen |-> 0, ret |-> "-",
     renotify |-> FALSE]

NoAdapter ==
    [kind |-> "none", held |-> FALSE, duration |-> 0, sleep |-> NoSleep,
     ret |-> "-", inner |-> "-", late |-> FALSE, reset |-> 0]

\* Worker::spawn: the set-queue takes one reserved token per slot.
SpawnWheel == ReserveTimes(WheelNew, RoundCapacity(ChannelCapacity))

Init ==
    /\ now = 0
    /\ wh = SpawnWheel
    /\ sq = ExchangeWithCapacity(ChannelCapacity, WheelNew)
    /\ mq = << >>
    /\ wk = [pc |-> "top", now |-> 0, token |-> FALSE]
    /\ sl = [p \in Producers |-> NoSleep]
    /\ note = None
    /\ fired = {}
    /\ cancelled = {}
    /\ moved = {}
    /\ stale = {}
    /\ kept = {}
    /\ timer = TRUE
    /\ th = NoThreads
    /\ last = NoCall
    /\ ad = NoAdapter

(***************************************************************************)
(* The clock                                                               *)
(***************************************************************************)
Tick ==
    /\ now < MaxTime
    /\ now' = now + 1
    /\ UNCHANGED << wh, sq, mq, wk, sl, note, fired, cancelled, moved, stale, kept, timer, th, last, ad >>

(***************************************************************************)
(* Producers: Sleep (timer.rs)                                             *)
(***************************************************************************)
Sid(p) == << p, sl[p].gen >>

\* Sleep::new (Timer::sleep), for a producer that creates at most `most`
\* Sleeps, one after the other.
NewSleepUpTo(p, duration, most) ==
    /\ sl[p].state = "none"
    /\ sl[p].gen < most
    /\ sl' = [sl EXCEPT ![p] = [state |-> "live", when |-> now + duration,
                                handle |-> None, gen |-> sl[p].gen + 1, ret |-> "-",
                                renotify |-> FALSE]]
    /\ UNCHANGED << now, wh, sq, mq, wk, note, fired, cancelled, moved, stale, kept, timer, th, last, ad >>

\* Sleep::new (Timer::sleep)
NewSleep(p, duration) == NewSleepUpTo(p, duration, MaxSleeps)

is_expiredNoTolerance(s, t) == t >= s.when

\* Sleep::is_expired
is_expired(s, t) == t >= s.when - Tolerance

IsTooLongInclusive(s, t) == s.when - t >= MaxTimeout

\* Sleep::poll: the check of the duration left against max_timeout.
IsTooLong(s, t) == s.when - t > MaxTimeout

\* Sleep::poll on the task `task`: the Sleep, the queues and the worker's
\* unpark token afterwards.  `sid` is a history field of the request or
\* message pushed, naming the Sleep that sent it; no operation reads it.
SleepPoll(s, task, t, q, m, sid) ==
    IF is_expired(s, t)
    THEN [s |-> [s EXCEPT !.ret = "Ready", !.renotify = FALSE],
          sq |-> q, mq |-> m, unpark |-> FALSE]
    ELSE IF ~IsSome(s.handle)
    THEN IF IsTooLong(s, t)
         THEN [s |-> [s EXCEPT !.ret = "TooLong", !.renotify = FALSE],
               sq |-> q, mq |-> m, unpark |-> FALSE]
         ELSE LET r == push_exch(q, s.when, task, sid)
              IN  IF r.ok
                  THEN [s |-> [s EXCEPT !.ret = "NotReady", !.renotify = FALSE,
                                        !.handle = Some(<< task, r.token >>)],
                        sq |-> r.q, mq |-> m, unpark |-> TRUE]
                  ELSE [s |-> [s EXCEPT !.ret = "NotReady", !.renotify = TRUE],
                        sq |-> q, mq |-> m, unpark |-> FALSE]
    ELSE IF Unwrap(s.handle)[1] = task
    THEN [s |-> [s EXCEPT !.ret = "NotReady", !.renotify = FALSE],
          sq |-> q, mq |-> m, unpark |-> FALSE]
    ELSE IF ModPushOk(m)
    THEN [s |-> [s EXCEPT !.ret = "NotReady", !.renotify = FALSE,
                          !.handle = Some(<< task, Unwrap(s.handle)[2] >>)],
          sq |-> q,
          mq |-> ModPush(m, [kind |-> "Move", token |-> Unwrap(s.handle)[2],
                             when |-> s.when, task |-> task,
                             sid |-> << sid.p, sid.gen >>]),
          unpark |-> TRUE]
    ELSE [s |-> [s EXCEPT !.ret = "NotReady", !.renotify = TRUE],
          sq |-> q, mq |-> m, unpark |-> FALSE]

PollSleep(p, task) ==
    /\ sl[p].state = "live"
    /\ sl[p].ret \in {"-", "NotReady"}
    /\ LET r == SleepPoll(sl[p], task, now, sq, mq, [p |-> p, gen |-> sl[p].gen, at |-> sl[p].when])
       IN  /\ sl' = [sl EXCEPT ![p] = r.s]
           /\ sq' = r.sq
           /\ mq' = r.mq
           /\ wk' = IF r.unpark THEN [wk EXCEPT !.token = TRUE] ELSE wk
    /\ UNCHANGED << now, wh, note, fired, cancelled, moved, stale, kept, timer, th, last, ad >>

\* Drop for Sleep: the mod-queue afterwards (Worker::cancel_timeout ignores
\* a full queue and does not unpark).  `sid` is a history field of the
\* message, naming the Sleep that sent it; no operation reads it.
SleepDrop(s, m, sid) ==
    IF IsSome(s.handle)
    THEN ModPush(m, [kind |-> "Cancel", token |-> Unwrap(s.handle)[2], when |-> s.when,
                     sid |-> sid])
    ELSE m

DropSleep(p) ==
    /\ sl[p].state = "live"
    /\ mq' = SleepDrop(sl[p], mq, Sid(p))
    /\ sl' = [sl EXCEPT ![p] = [NoSleep EXCEPT !.gen = sl[p].gen]]
    /\ UNCHANGED << now, wh, sq, wk, note, fired, cancelled, moved, stale, kept, timer, th, last, ad >>

(***************************************************************************)
(* The worker thread: run() (worker.rs)                                    *)
(***************************************************************************)
\* One call of wheel.poll(now) and the notify of the task it returned.  At
\* the top of the loop the worker first reads the clock.
WorkerPoll ==
    /\ wk.pc \in {"top", "poll"}
    /\ LET t == IF wk.pc = "top" THEN now ELSE wk.now
           r == poll(wh, t)
       IN  /\ wh' = r.w
           /\ wk' = IF IsSome(r.task)
                    THEN [wk EXCEPT !.now = t, !.pc = "poll"]
                    ELSE [wk EXCEPT !.now = 0, !.pc = "set"]
           /\ note' = IF IsSome(r.fired)
                      THEN Some([sid |-> Unwrap(r.fired).sid, task |-> Unwrap(r.task),
                                 when |-> Unwrap(r.fired).when, now |-> t])
                      ELSE None
           /\ fired' = IF IsSome(r.fired)
                       THEN fired \cup {<< Unwrap(r.fired).sid.p, Unwrap(r.fired).sid.gen >>}
                       ELSE fired
    /\ UNCHANGED << now, sq, mq, sl, cancelled, moved, stale, kept, timer, th, last, ad >>

\* The Sleeps whose request waits in the set-queue (history fields of the
\* values between dequeue_pos and enqueue_pos).
Pending(q) ==
    {<< q.buffer[BitAnd(pos, q.mask)].value.sid.p, q.buffer[BitAnd(pos, q.mask)].value.sid.gen >> :
        pos \in q.dequeue_pos .. q.enqueue_pos - 1}

\* One turn of `while let Some(token) = wheel.reserve()`.
WorkerSet ==
    /\ wk.pc = "set"
    /\ LET tok == ReserveToken(wh)
           w1 == Reserve(wh)
       IN  IF ~IsSome(tok)
           THEN /\ wk' = [wk EXCEPT !.pc = "mod"]
                /\ UNCHANGED << wh, sq >>
           ELSE LET r == pop_exch(sq, Unwrap(tok))
                IN  IF r.ok
                    THEN /\ wh' = set_timeout(w1, r.value.token, r.value.when,
                                              r.value.task, r.value.sid)
                         /\ sq' = r.q
                         /\ UNCHANGED wk
                    ELSE /\ wh' = Release(w1, Unwrap(tok))
                         /\ wk' = [wk EXCEPT !.pc = "mod"]
                         /\ UNCHANGED sq
    /\ note' = None
    /\ kept' = IF IsSome(ReserveToken(wh)) THEN kept ELSE kept \cup Pending(sq)
    /\ UNCHANGED << now, mq, sl, fired, cancelled, moved, stale, timer, th, last, ad >>

\* The message is the Cancel of a Sleep whose entry is linked in the wheel
\* under the message's token.
CancelOfLinked(w, msg) ==
    /\ msg.kind = "Cancel"
    /\ IsTimeout(w, msg.token)
    /\ << w.slab.entries[msg.token].sid.p, w.slab.entries[msg.token].sid.gen >> = msg.sid

\* The message is the Move of a Sleep whose entry is linked in the wheel
\* under the message's token.
MoveOfLinked(w, msg) ==
    /\ msg.kind = "Move"
    /\ IsTimeout(w, msg.token)
    /\ << w.slab.entries[msg.token].sid.p, w.slab.entries[msg.token].sid.gen >> = msg.sid

\* The message comes from a Sleep whose entry has fired, and its token now
\* carries the timeout of another Sleep.
LateForReused(w, msg) ==
    /\ msg.sid \in fired
    /\ IsTimeout(w, msg.token)
    /\ << w.slab.entries[msg.token].sid.p, w.slab.entries[msg.token].sid.gen >> # msg.sid

\* One turn of the mod-queue loop that pops a message.
WorkerMod ==
    /\ wk.pc = "mod"
    /\ mq # << >>
    /\ LET msg == Head(mq)
       IN  wh' = IF msg.kind = "Move"
                 THEN move_timeout(wh, msg.token, msg.when, msg.task)
                 ELSE cancel(wh, msg.token, msg.when)
    /\ mq' = ModPop(mq)
    /\ note' = None
    /\ cancelled' = IF CancelOfLinked(wh, Head(mq))
                    THEN cancelled \cup {Head(mq).sid}
                    ELSE cancelled
    /\ moved' = IF MoveOfLinked(wh, Head(mq))
                THEN {m \in moved : m[1] # Head(mq).sid}
                        \cup {<< Head(mq).sid, Head(mq).task >>}
                ELSE moved
    /\ stale' = IF LateForReused(wh, Head(mq))
                THEN stale \cup {<< Head(mq).sid,
                                    << wh.slab.entries[Head(mq).token].sid.p,
                                       wh.slab.entries[Head(mq).token].sid.gen >>,
                                    Head(mq).kind >>}
                ELSE stale
    /\ UNCHANGED << now, sq, wk, sl, fired, kept, timer, th, last, ad >>

\* The pop of the mod-queue has returned None: the worker reads the clock
\* again and calls park_timeout or park.  `next - now` with next < now:
\* Instant subtraction panics on the toolchains this crate builds on, and
\* saturates to zero on later ones; the worker is then inside
\* park_timeout(0), whose return (WorkerWake, the timeout has elapsed) takes
\* the unpark token, also one set since the pop.
WorkerPark ==
    /\ wk.pc = "mod"
    /\ mq = << >>
    /\ LET next == next_timeout(wh)
       IN  IF IsSome(next) /\ Unwrap(next) < now
           THEN \/ wk' = [wk EXCEPT !.pc = "panicked"]
                \/ wk' = [wk EXCEPT !.pc = "parked"]
           ELSE wk' = [wk EXCEPT !.pc = "parked"]
    /\ note' = None
    /\ UNCHANGED << now, wh, sq, mq, sl, fired, cancelled, moved, stale, kept, timer, th, last, ad >>

\* The instant a parked worker's park_timeout ends: the wheel's
\* next_timeout, which does not change while the worker is parked.
ParkElapsed ==
    IF IsSome(next_timeout(wh)) THEN now >= Unwrap(next_timeout(wh)) ELSE FALSE

\* thread::park / park_timeout return: the unpark token is set or the
\* timeout has elapsed.
WorkerWake ==
    /\ wk.pc = "parked"
    /\ wk.token \/ ParkElapsed
    /\ wk' = [wk EXCEPT !.pc = "top", !.token = FALSE]
    /\ UNCHANGED << now, wh, sq, mq, sl, note, fired, cancelled, moved, stale, kept, timer, th, last, ad >>

\* thread::park may also return spuriously.
WorkerSpurious ==
    /\ wk.pc = "parked"
    /\ ~wk.token
    /\ ~ParkElapsed
    /\ wk' = [wk EXCEPT !.pc = "top"]
    /\ UNCHANGED << now, wh, sq, mq, sl, note, fired, cancelled, moved, stale, kept, timer, th, last, ad >>

Worker == WorkerPoll \/ WorkerSet \/ WorkerMod \/ WorkerPark \/ WorkerWake

\* The producers P, each polling its Sleep on the tasks T.
Producer(P, T) ==
    \E p \in P :
        \/ \E d \in 0 .. MaxDur : NewSleep(p, d)
        \/ \E t \in T : PollSleep(p, t)
        \/ DropSleep(p)

\* Two producers, each polling from one task.
Next == Tick \/ Worker \/ WorkerSpurious \/ Producer(Producers, {1})

Spec == Init /\ [][Next]_vars

\* One producer polling its Sleep from two tasks.
NextTasks == Tick \/ Worker \/ WorkerSpurious \/ Producer({1}, Tasks)

SpecTasks == Init /\ [][NextTasks]_vars

\* The clock of the run in which one producer fills the set-queue.
RenewTick ==
    /\ now < MaxRenewTime
    /\ now' = now + 1
    /\ UNCHANGED << wh, sq, mq, wk, sl, note, fired, cancelled, moved, stale, kept, timer, th, last, ad >>

\* One producer that creates up to MaxRenew Sleeps, one after the other.
Renewer(p, T) ==
    \/ \E d \in 0 .. MaxDur : NewSleepUpTo(p, d, MaxRenew)
    \/ \E t \in T : PollSleep(p, t)
    \/ DropSleep(p)

NextRenew == RenewTick \/ Worker \/ WorkerSpurious \/ Renewer(1, {1})

SpecRenew == Init /\ [][NextRenew]_vars

\* The clock of the run in which a token goes round the set-queue: it is
\* read at the tick boundaries.
ReuseTick ==
    /\ now < MaxReuseTime
    /\ now' = now + TickMs
    /\ UNCHANGED << wh, sq, mq, wk, sl, note, fired, cancelled, moved, stale, kept, timer, th, last, ad >>

\* A producer that creates up to `most` Sleeps of the longest duration the
\* timer takes, one after the other.
Submitter(p, most) ==
    \/ NewSleepUpTo(p, MaxTimeout, most)
    \/ PollSleep(p, 1)
    \/ DropSleep(p)

\* One producer with a single Sleep, the other with Sleeps enough to take
\* the set-queue's tokens round the ring.
NextReuse == ReuseTick \/ Worker \/ Submitter(1, MaxSleeps) \/ Submitter(2, MaxRenew)

SpecReuse == Init /\ [][NextReuse]_vars

\* The clock of the run in which a message comes late for a token that has
\* gone round the set-queue: it is read when the Sleeps are made and when
\* the first of them is due.
LateTick ==
    /\ now < MaxReuseTime
    /\ now' = now + MaxTimeout
    /\ UNCHANGED << wh, sq, mq, wk, sl, note, fired, cancelled, moved, stale, kept, timer, th, last, ad >>

\* A producer whose Sleeps of the longest duration are polled first on
\* task 1 and, once registered, on task 2 (Sleep::poll then sends a Move).
Migrant(p, most) ==
    \/ NewSleepUpTo(p, MaxTimeout, most)
    \/ PollSleep(p, IF IsSome(sl[p].handle) THEN 2 ELSE 1)
    \/ DropSleep(p)

\* Four Sleeps through the two-slot set-queue, the first of them moved to
\* another task and dropped while the worker is away.
NextLate == LateTick \/ Worker \/ Migrant(1, MaxSleeps) \/ Submitter(2, MaxRenew)

SpecLate == Init /\ [][NextLate]_vars

\* The wheel that Worker::spawn leaves when max_capacity is one cell above
\* channel_capacity: one linked timeout brings the slab to max_capacity.
TightWheel == [SpawnWheel EXCEPT !.max_capacity = RoundCapacity(ChannelCapacity) + 1]

InitTight ==
    /\ now = 0
    /\ wh = TightWheel
    /\ sq = ExchangeWithCapacity(ChannelCapacity, WheelNew)
    /\ mq = << >>
    /\ wk = [pc |-> "top", now |-> 0, token |-> FALSE]
    /\ sl = [p \in Producers |-> NoSleep]
    /\ note = None
    /\ fired = {}
    /\ cancelled = {}
    /\ moved = {}
    /\ stale = {}
    /\ kept = {}
    /\ timer = TRUE
    /\ th = NoThreads
    /\ last = NoCall
    /\ ad = NoAdapter

\* One producer renewing its Sleep of the longest duration against the
\* wheel of tight capacity, the clock read at every millisecond.
NextTight == Tick \/ Worker \/ Submitter(1, MaxRenew)

SpecTight == InitTight /\ [][NextTight]_vars

\* Timer::sleep needs a Timer handle: the user's, or the clone a live Sleep
\* holds and Sleep::timer() hands out.
SleepOfTimer(p) ==
    /\ timer \/ \E q \in Producers : sl[q].state = "live"
    /\ \E d \in 0 .. MaxDur : NewSleep(p, d)

\* The user's Timer handle (the last of its clones) is dropped.  Neither Timer nor Worker has a Drop
\* impl: nothing is sent to the worker thread and nothing is set.
DropTimer ==
    /\ timer
    /\ timer' = FALSE
    /\ UNCHANGED << now, wh, sq, mq, wk, sl, note, fired, cancelled, moved, stale, kept, th, last, ad >>

\* One producer, whose Timer handle is dropped at some point.
NextShutdown ==
    \/ RenewTick
    \/ Worker
    \/ WorkerSpurious
    \/ \E p \in Producers :
          \/ SleepOfTimer(p)
          \/ PollSleep(p, 1)
          \/ DropSleep(p)
    \/ DropTimer

SpecShutdown == Init /\ [][NextShutdown]_vars

(***************************************************************************)
(* Timeout<F> and TimeoutStream<S> (timer.rs): one of them at a time, over *)
(* the same worker.  What the inner future or stream returns at a poll is  *)
(* an input of the poll.  `inner`, `late` and `reset` are history fields:  *)
(* the inner result of the last poll, whether the deadline had passed at   *)
(* the last poll, and the instant of the last reset of the deadline.       *)
(***************************************************************************)
\* The history name of the adapter's Sleep in requests and messages.
AdSid(s) == [p |-> 0, gen |-> s.gen, at |-> s.when]

\* Sleep::new for the adapter's Sleep.
FreshSleep(t, duration, gen) ==
    [state |-> "live", when |-> t + duration, handle |-> None, gen |-> gen, ret |-> "-",
     renotify |-> FALSE]

\* Timer::timeout
NewTimeout(duration) ==
    /\ ad.kind = "none"
    /\ ad.reset = 0
    /\ ad' = [kind |-> "timeout", held |-> TRUE, duration |-> duration,
              sleep |-> FreshSleep(now, duration, 1),
              ret |-> "-", inner |-> "-", late |-> FALSE, reset |-> now]
    /\ UNCHANGED << now, wh, sq, mq, wk, sl, note, fired, cancelled, moved, stale, kept, timer, th, last >>

\* Timer::timeout_stream
NewTimeoutStream(duration) ==
    /\ ad.kind = "none"
    /\ ad.reset = 0
    /\ ad' = [kind |-> "stream", held |-> TRUE, duration |-> duration,
              sleep |-> FreshSleep(now, duration, 1),
              ret |-> "-", inner |-> "-", late |-> FALSE, reset |-> now]
    /\ UNCHANGED << now, wh, sq, mq, wk, sl, note, fired, cancelled, moved, stale, kept, timer, th, last >>

\* The second half of both polls: `match self.sleep.poll()`.
CheckTimer(a, task, t, q, m) ==
    LET r == SleepPoll(a.sleep, task, t, q, m, AdSid(a.sleep))
    IN  [a |-> [a EXCEPT !.sleep = r.s,
                         !.ret = IF r.s.ret = "NotReady" THEN "NotReady"
                                 ELSE IF r.s.ret = "Ready" THEN "TimedOut"
                                 ELSE "TimerErr",
                         !.held = (r.s.ret = "NotReady")],
         sq |-> r.sq, mq |-> r.mq, unpark |-> r.unpark]

InnerReturnsOnlyReady(inner) == inner = "Ready"

\* Timeout::poll: `v => return v`, any result of the inner future but
\* NotReady.
InnerReturns(inner) == inner # "NotReady"

\* Timeout::poll
TimeoutPoll(a, inner, task, t, q, m) ==
    IF InnerReturns(inner)
    THEN [a |-> [a EXCEPT !.ret = inner], sq |-> q, mq |-> m, unpark |-> FALSE]
    ELSE CheckTimer(a, task, t, q, m)

ResetSleepKeepsDeadline(a, t) == [a.sleep EXCEPT !.gen = a.sleep.gen + 1]

\* TimeoutStream::poll: the Sleep that replaces the old one on a value.
ResetSleep(a, t) == FreshSleep(t, a.duration, a.sleep.gen + 1)

\* TimeoutStream::poll.  The assignment to self.sleep drops the old Sleep.
StreamPoll(a, inner, task, t, q, m) ==
    IF inner = "Item"
    THEN [a |-> [a EXCEPT !.sleep = ResetSleep(a, t), !.ret = "Item", !.reset = t],
          sq |-> q,
          mq |-> SleepDrop(a.sleep, m, << 0, a.sleep.gen >>),
          unpark |-> FALSE]
    ELSE IF inner # "NotReady"
    THEN [a |-> [a EXCEPT !.ret = inner], sq |-> q, mq |-> m, unpark |-> FALSE]
    ELSE CheckTimer(a, task, t, q, m)

\* A poll of the Timeout on `task`, the inner future returning `inner`.
PollTimeout(inner, task) ==
    /\ ad.kind = "timeout"
    /\ ad.ret \in {"-", "NotReady"}
    /\ LET r == TimeoutPoll(ad, inner, task, now, sq, mq)
       IN  /\ ad' = [r.a EXCEPT !.inner = inner, !.late = (now >= ad.sleep.when)]
           /\ sq' = r.sq
           /\ mq' = r.mq
           /\ wk' = IF r.unpark THEN [wk EXCEPT !.token = TRUE] ELSE wk
    /\ UNCHANGED << now, wh, sl, note, fired, cancelled, moved, stale, kept, timer, th, last >>

\* A poll of the TimeoutStream on `task`, the inner stream returning `inner`.
\* An error of the inner stream leaves the TimeoutStream as it is, to be
\* polled again; it is not polled again after the end of the stream or
\* after a timeout.
PollStream(inner, task) ==
    /\ ad.kind = "stream"
    /\ ad.ret \in {"-", "NotReady", "Item", "Err"}
    /\ inner = "Item" => ad.sleep.gen <= MaxItems
    /\ LET r == StreamPoll(ad, inner, task, now, sq, mq)
       IN  /\ ad' = [r.a EXCEPT !.inner = inner, !.late = (now >= ad.sleep.when)]
           /\ sq' = r.sq
           /\ mq' = r.mq
           /\ wk' = IF r.unpark THEN [wk EXCEPT !.token = TRUE] ELSE wk
    /\ UNCHANGED << now, wh, sl, note, fired, cancelled, moved, stale, kept, timer, th, last >>

\* The adapter is dropped, and its Sleep with it.
DropAdapter ==
    /\ ad.kind # "none"
    /\ mq' = SleepDrop(ad.sleep, mq, << 0, ad.sleep.gen >>)
    /\ ad' = [NoAdapter EXCEPT !.reset = 1]
    /\ UNCHANGED << now, wh, sq, wk, sl, note, fired, cancelled, moved, stale, kept, timer, th, last >>

FutureResults == {"NotReady", "Ready", "Err"}
StreamResults == {"NotReady", "Item", "End", "Err"}

NextAdapt ==
    \/ Tick
    \/ Worker
    \/ WorkerSpurious
    \/ \E d \in 0 .. MaxDur : NewTimeout(d) \/ NewTimeoutStream(d)
    \/ \E inner \in FutureResults : PollTimeout(inner, 1)
    \/ \E inner \in StreamResults : PollStream(inner, 1)
    \/ DropAdapter

SpecAdapt == Init /\ [][NextAdapt]_vars

(***************************************************************************)
(* Interval (interval.rs, Timer::interval and Timer::interval_at): a       *)
(* stream over one Sleep, held in `ad` like the other adapters.            *)
(***************************************************************************)
\* Timer::interval
NewInterval(dur) ==
    /\ ad.kind = "none"
    /\ ad.reset = 0
    /\ ad' = [kind |-> "interval", held |-> TRUE, duration |-> dur,
              sleep |-> FreshSleep(now, dur, 1),
              ret |-> "-", inner |-> "-", late |-> FALSE, reset |-> now]
    /\ UNCHANGED << now, wh, sq, mq, wk, sl, note, fired, cancelled, moved, stale, kept, timer, th, last >>

\* Timer::interval_at: the duration of the first Sleep.
FirstDelay(at, t) == IF at > t THEN at - t ELSE 0

\* Timer::interval_at.  The clock is read twice: by interval_at itself, at
\* `t0`, and then by Sleep::new, at `now`.
NewIntervalAt(at, dur) ==
    /\ ad.kind = "none"
    /\ ad.reset = 0
    /\ \E t0 \in 0 .. now :
          ad' = [kind |-> "interval", held |-> TRUE, duration |-> dur,
                 sleep |-> FreshSleep(now, FirstDelay(at, t0), 1),
                 ret |-> "-", inner |-> "-", late |-> FALSE, reset |-> now]
    /\ UNCHANGED << now, wh, sq, mq, wk, sl, note, fired, cancelled, moved, stale, kept, timer, th, last >>

\* Interval::poll.  try_ready! returns the Sleep's NotReady or error; on
\* Ready the Sleep is replaced by timer.sleep(duration), which drops the
\* old one.
IntervalPoll(a, task, t, q, m) ==
    LET r == SleepPoll(a.sleep, task, t, q, m, AdSid(a.sleep))
    IN  IF r.s.ret = "Ready"
        THEN [a |-> [a EXCEPT !.sleep = FreshSleep(t, a.duration, a.sleep.gen + 1),
                              !.ret = "Tick", !.reset = t],
              sq |-> r.sq,
              mq |-> SleepDrop(r.s, r.mq, << 0, a.sleep.gen >>),
              unpark |-> r.unpark]
        ELSE [a |-> [a EXCEPT !.sleep = r.s,
                              !.ret = IF r.s.ret = "NotReady" THEN "NotReady" ELSE "TimerErr"],
              sq |-> r.sq, mq |-> r.mq, unpark |-> r.unpark]

\* A poll of the Interval on `task`; a TimerError leaves the Interval with
\* its Sleep, to be polled again.
PollInterval(task) ==
    /\ ad.kind = "interval"
    /\ ad.ret \in {"-", "NotReady", "Tick", "TimerErr"}
    /\ ad.sleep.gen <= MaxItems
    /\ LET r == IntervalPoll(ad, task, now, sq, mq)
       IN  /\ ad' = [r.a EXCEPT !.late = (now >= ad.sleep.when)]
           /\ sq' = r.sq
           /\ mq' = r.mq
           /\ wk' = IF r.unpark THEN [wk EXCEPT !.token = TRUE] ELSE wk
    /\ UNCHANGED << now, wh, sl, note, fired, cancelled, moved, stale, kept, timer, th, last >>

NextInterval ==
    \/ Tick
    \/ Worker
    \/ WorkerSpurious
    \/ \E dur \in 1 .. MaxDur : NewInterval(dur)
    \/ \E at \in 0 .. MaxDur : \E dur \in 1 .. MaxDur : NewIntervalAt(at, dur)
    \/ PollInterval(1)
    \/ DropAdapter

SpecInterval == Init /\ [][NextInterval]_vars

(***************************************************************************)
(* The wheel driven directly through its public operations, as its only    *)
(* caller (the worker) may: reserve, release of a reserved token,          *)
(* set_timeout on a reserved token, move_timeout, cancel, and poll at the  *)
(* clock's instant.                                                        *)
(***************************************************************************)
WheelUnchanged == UNCHANGED << sq, mq, wk, sl, fired, cancelled, moved, stale, kept, timer, th, ad >>

IsReserved(w, t) == SlabFilled(w.slab, t) /\ w.slab.entries[t].kind = "Reserved"

Tokens == 0 .. MaxCapacity - 1

WReserve ==
    /\ wh.slab.len < MaxHeld
    /\ wh' = Reserve(wh)
    /\ last' = NoCall
    /\ note' = None
    /\ UNCHANGED now
    /\ WheelUnchanged

WRelease(token) ==
    /\ IsReserved(wh, token)
    /\ wh' = Release(wh, token)
    /\ last' = NoCall
    /\ note' = None
    /\ UNCHANGED now
    /\ WheelUnchanged

WSetTimeout(token, at, task) ==
    /\ IsReserved(wh, token)
    /\ wh' = set_timeout(wh, token, at, task, [p |-> 0, gen |-> 0, at |-> 0])
    /\ last' = NoCall
    /\ note' = None
    /\ UNCHANGED now
    /\ WheelUnchanged

WMoveTimeout(token, when, task) ==
    /\ wh' = move_timeout(wh, token, when, task)
    /\ last' = NoCall
    /\ note' = None
    /\ UNCHANGED now
    /\ WheelUnchanged

WCancel(token, when) ==
    /\ wh' = cancel(wh, token, when)
    /\ last' = NoCall
    /\ note' = None
    /\ UNCHANGED now
    /\ WheelUnchanged

WPoll ==
    /\ LET r == poll(wh, now)
       IN  /\ wh' = r.w
           /\ last' = [op |-> "poll", at |-> now,
                       ret |-> IF IsSome(r.task) THEN "Some" ELSE "None"]
           /\ note' = IF IsSome(r.fired)
                      THEN Some([sid |-> Unwrap(r.fired).sid, task |-> Unwrap(r.task),
                                 when |-> Unwrap(r.fired).when, now |-> now])
                      ELSE None
    /\ UNCHANGED now
    /\ WheelUnchanged

WTick ==
    /\ now < MaxWheelTime
    /\ now' = now + 1
    /\ UNCHANGED << wh, note, last >>
    /\ WheelUnchanged

\* The instants a cancel or a move of `token` is tried with: the entry's
\* own `when` and one that differs from it.
Whens(token) ==
    IF IsTimeout(wh, token)
    THEN {wh.slab.entries[token].when, wh.slab.entries[token].when + 1}
    ELSE {0}

InitWheel ==
    /\ now = 0
    /\ wh = WheelNew
    /\ sq = ExchangeWithCapacity(ChannelCapacity, WheelNew)
    /\ mq = << >>
    /\ wk = [pc |-> "top", now |-> 0, token |-> FALSE]
    /\ sl = [p \in Producers |-> NoSleep]
    /\ note = None
    /\ fired = {}
    /\ cancelled = {}
    /\ moved = {}
    /\ stale = {}
    /\ kept = {}
    /\ timer = TRUE
    /\ th = NoThreads
    /\ last = NoCall
    /\ ad = NoAdapter

NextWheel ==
    \/ WTick
    \/ WReserve
    \/ WPoll
    \/ \E token \in Tokens :
          \/ WRelease(token)
          \/ \E at \in 0 .. MaxWheelTime + 1 : WSetTimeout(token, at, 1)
          \/ \E when \in Whens(token) :
                \/ WCancel(token, when)
                \/ \E task \in Tasks : WMoveTimeout(token, when, task)

SpecWheel == InitWheel /\ [][NextWheel]_vars

\* Wheel::poll at an instant that is not the clock's: `at` is any instant
\* from the wheel's start on, also one before that of an earlier poll.
WPollAt(at) ==
    /\ LET r == poll(wh, at)
       IN  /\ wh' = r.w
           /\ last' = [op |-> "poll", at |-> at,
                       ret |-> IF IsSome(r.task) THEN "Some" ELSE "None"]
           /\ note' = IF IsSome(r.fired)
                      THEN Some([sid |-> Unwrap(r.fired).sid, task |-> Unwrap(r.task),
                                 when |-> Unwrap(r.fired).when, now |-> at])
                      ELSE None
    /\ UNCHANGED now
    /\ WheelUnchanged

\* The wheel driven directly, its polls at any instant up to the clock's.
NextPollAt ==
    \/ NextWheel
    \/ \E at \in 0 .. now : WPollAt(at)

SpecPollAt == InitWheel /\ [][NextPollAt]_vars

(***************************************************************************)
(* The wheel of any Builder: initial_capacity and max_capacity are inputs, *)
(* and reserve is called whatever the number of cells in use.  A call that *)
(* panics ends the run.                                                    *)
(***************************************************************************)
\* Wheel::new for a Builder with the given initial_capacity and
\* max_capacity.
WheelOf(initial_capacity, max_capacity) ==
    [WheelNew EXCEPT !.slab = SlabWithCapacity(Max(initial_capacity, ChannelCapacity)),
                     !.max_capacity = max_capacity]

InitGrow ==
    /\ now = 0
    /\ \E ic \in 1 .. MaxConfig : \E mc \in 1 .. MaxConfig : wh = WheelOf(ic, mc)
    /\ sq = ExchangeWithCapacity(ChannelCapacity, WheelNew)
    /\ mq = << >>
    /\ wk = [pc |-> "top", now |-> 0, token |-> FALSE]
    /\ sl = [p \in Producers |-> NoSleep]
    /\ note = None
    /\ fired = {}
    /\ cancelled = {}
    /\ moved = {}
    /\ stale = {}
    /\ kept = {}
    /\ timer = TRUE
    /\ th = NoThreads
    /\ last = NoCall
    /\ ad = NoAdapter

Panicked == last.op = "panic"

\* A full slab of at most MaxConfig cells grows to at most twice as many.
GrowTokens == 0 .. 2 * MaxConfig - 1

\* Wheel::reserve, returning Some or None.
GReserve ==
    /\ ~Panicked
    /\ wh.slab.len < MaxGrowCells
    /\ ~ReserveOverflows(wh)
    /\ wh' = Reserve(wh)
    /\ last' = [op |-> "reserve", at |-> wh.slab.len,
                ret |-> IF IsSome(ReserveToken(wh)) THEN "Some" ELSE "None"]
    /\ note' = None
    /\ UNCHANGED now
    /\ WheelUnchanged

\* Wheel::reserve when `self.max_capacity - amt` overflows: a panic, or the
\* wrapped difference.
GReserveOverflow ==
    /\ ~Panicked
    /\ wh.slab.len < MaxGrowCells
    /\ ReserveOverflows(wh)
    /\ \/ /\ wh' = wh
          /\ last' = [op |-> "panic", at |-> wh.slab.len, ret |-> "-"]
       \/ /\ wh' = Reserve(wh)
          /\ last' = [op |-> "reserve", at |-> wh.slab.len, ret |-> "Some"]
    /\ note' = None
    /\ UNCHANGED now
    /\ WheelUnchanged

GTick ==
    /\ ~Panicked
    /\ now < MaxGrowTime
    /\ now' = now + 1
    /\ UNCHANGED << wh, note, last >>
    /\ WheelUnchanged

GPoll == ~Panicked /\ WPoll

GRelease(token) == ~Panicked /\ WRelease(token)

GSetTimeout(token, at) == ~Panicked /\ WSetTimeout(token, at, 1)

GCancel(token, when) == ~Panicked /\ WCancel(token, when)

NextGrow ==
    \/ GReserve
    \/ GReserveOverflow
    \/ GTick
    \/ GPoll
    \/ \E token \in GrowTokens :
          \/ GRelease(token)
          \/ \E at \in {0, MaxGrowTime + TickMs} : GSetTimeout(token, at)
          \/ \E when \in Whens(token) : GCancel(token, when)

SpecGrow == InitGrow /\ [][NextGrow]_vars

(***************************************************************************)
(***************************************************************************)
(* The set-queue followed access by access: each load, compare_and_swap,   *)
(* ptr::read, ptr::write and store of push_exch and pop_exch is one step.  *)
(* The producers call push_exch concurrently; the worker thread, the only  *)
(* holder of Rx, calls pop_exch.  The atomics are taken as sequentially    *)
(* consistent.                                                             *)
(***************************************************************************)
\* The thread that calls pop_exch.
Popper == 0

\* push_exch: `diff`.
PushDiffNoFullCheck(seq, pos) == 0

PushDiffOffByOne(seq, pos) == seq - (pos + 1)

PushDiff(seq, pos) == seq - pos

\* pop_exch: `diff`.
PopDiff(seq, pos) == seq - (pos + 1)

\* The node a position maps to.
NodeOf(q, pos) == BitAnd(pos, q.mask)

\* A producer outside push_exch, or the worker outside pop_exch.  `calls`
\* counts the calls made; `ret`, `wrote` and `spun` are history of the last
\* call: its result, whether it stored into the queue, and whether it went
\* round its loop while enqueue_pos still was the position it had loaded.
IdlePusher ==
    [pc |-> "idle", pos |-> 0, token |-> EMPTY, calls |-> 0, ret |-> None,
     wrote |-> FALSE, spun |-> FALSE]

IdlePopper ==
    [pc |-> "idle", pos |-> 0, next_token |-> EMPTY, value |-> None, calls |-> 0,
     ret |-> None]

\* `pushed`: the requests push_exch returned Ok for, each with the token
\* returned and its enqueue position; `popped`: the triples pop_exch
\* returned, in the order of the returns; `full`: for each Err of
\* push_exch, the number of claimed positions that no completed pop_exch
\* had freed at that moment.
InitThreads ==
    [t |-> [x \in Producers \cup {Popper} |->
               IF x = Popper THEN IdlePopper ELSE IdlePusher],
     pushed |-> {},
     popped |-> << >>,
     full |-> {}]

ExchUnchanged ==
    UNCHANGED << now, mq, wk, sl, note, fired, cancelled, moved, stale, kept, timer, last, ad >>

\* The request of the c-th call of producer p: its instant, task and name.
RequestOf(p, c) == [when |-> c, task |-> p, sid |-> << p, c >>]

\* The positions claimed by push_exch that no completed pop_exch has freed.
Unpopped == sq.enqueue_pos - Len(th.popped)

\* push_exch is called: `let mut pos = self.enqueue_pos.load(Relaxed)`.
XPushCall(p) ==
    /\ th.t[p].pc = "idle"
    /\ th.t[p].calls < MaxPushes
    /\ th' = [th EXCEPT !.t[p] = [pc |-> "seq", pos |-> sq.enqueue_pos, token |-> EMPTY,
                                  calls |-> th.t[p].calls + 1, ret |-> None,
                                  wrote |-> FALSE, spun |-> FALSE]]
    /\ UNCHANGED sq
    /\ UNCHANGED wh
    /\ ExchUnchanged

\* push_exch: the load of the node's sequence and the branch on diff;
\* diff < 0 returns Err(task).
XPushSeq(p) ==
    /\ th.t[p].pc = "seq"
    /\ LET pos == th.t[p].pos
           diff == PushDiff(sq.buffer[NodeOf(sq, pos)].sequence, pos)
       IN  th' = IF diff = 0 THEN [th EXCEPT !.t[p].pc = "cas"]
                 ELSE IF diff < 0
                 THEN [th EXCEPT !.t[p].pc = "idle",
                                 !.t[p].ret = Some([ok |-> FALSE, token |-> EMPTY,
                                                    task |-> RequestOf(p, th.t[p].calls).task]),
                                 !.full = th.full \cup {Unpopped}]
                 ELSE [th EXCEPT !.t[p].pc = "reload",
                                 !.t[p].spun = th.t[p].spun \/ sq.enqueue_pos = pos]
    /\ UNCHANGED sq
    /\ UNCHANGED wh
    /\ ExchUnchanged

\* push_exch: `pos = self.enqueue_pos.load(Relaxed)` after diff > 0.
XPushReload(p) ==
    /\ th.t[p].pc = "reload"
    /\ th' = [th EXCEPT !.t[p].pc = "seq", !.t[p].pos = sq.enqueue_pos]
    /\ UNCHANGED sq
    /\ UNCHANGED wh
    /\ ExchUnchanged

XPushCasAlways(p) ==
    /\ th.t[p].pc = "cas"
    /\ sq' = [sq EXCEPT !.enqueue_pos = th.t[p].pos + 1]
    /\ th' = [th EXCEPT !.t[p].pc = "read", !.t[p].wrote = TRUE]
    /\ UNCHANGED wh
    /\ ExchUnchanged

\* push_exch: compare_and_swap(pos, pos+1) on enqueue_pos.
XPushCas(p) ==
    /\ th.t[p].pc = "cas"
    /\ IF sq.enqueue_pos = th.t[p].pos
       THEN /\ sq' = [sq EXCEPT !.enqueue_pos = th.t[p].pos + 1]
            /\ th' = [th EXCEPT !.t[p].pc = "read", !.t[p].wrote = TRUE]
       ELSE /\ th' = [th EXCEPT !.t[p].pc = "seq", !.t[p].pos = sq.enqueue_pos]
            /\ UNCHANGED sq
    /\ UNCHANGED wh
    /\ ExchUnchanged

\* push_exch: ptr::read of the node's value; anything but Token(token)
\* writes Token(Token(0)) and hits unreachable!().
XPushRead(p) ==
    /\ th.t[p].pc = "read"
    /\ LET i == NodeOf(sq, th.t[p].pos)
       IN  IF sq.buffer[i].value.kind = "Token"
           THEN /\ th' = [th EXCEPT !.t[p].pc = "write",
                                    !.t[p].token = sq.buffer[i].value.token]
                /\ UNCHANGED sq
           ELSE /\ th' = [th EXCEPT !.t[p].pc = "unreachable"]
                /\ sq' = [sq EXCEPT !.buffer[i].value = [kind |-> "Token", token |-> 0]]
    /\ UNCHANGED wh
    /\ ExchUnchanged

\* push_exch: ptr::write of Timeout(token, instant, task).
XPushWrite(p) ==
    /\ th.t[p].pc = "write"
    /\ LET r == RequestOf(p, th.t[p].calls)
       IN  sq' = [sq EXCEPT !.buffer[NodeOf(sq, th.t[p].pos)].value =
                     [kind |-> "Timeout", token |-> th.t[p].token, when |-> r.when,
                      task |-> r.task, sid |-> r.sid]]
    /\ th' = [th EXCEPT !.t[p].pc = "store"]
    /\ UNCHANGED wh
    /\ ExchUnchanged

\* push_exch: sequence.store(pos+1, Release) and `return Ok(token)`.
XPushStore(p) ==
    /\ th.t[p].pc = "store"
    /\ sq' = [sq EXCEPT !.buffer[NodeOf(sq, th.t[p].pos)].sequence = th.t[p].pos + 1]
    /\ th' = [th EXCEPT !.t[p].pc = "idle",
                        !.t[p].ret = Some([ok |-> TRUE, token |-> th.t[p].token,
                                           task |-> RequestOf(p, th.t[p].calls).task]),
                        !.pushed = th.pushed \cup
                            {[sid |-> RequestOf(p, th.t[p].calls).sid,
                              token |-> th.t[p].token, pos |-> th.t[p].pos]}]
    /\ UNCHANGED wh
    /\ ExchUnchanged

\* The token the worker passes to pop_exch: that of wheel.reserve().
NextToken == ReserveToken(wh)

\* run(): `while let Some(token) = wheel.reserve()`, and pop_exch(token) is
\* called: `let mut pos = self.dequeue_pos.load(Relaxed)`.
XPopCall ==
    /\ th.t[Popper].pc = "idle"
    /\ th.t[Popper].calls < MaxPops
    /\ IsSome(NextToken)
    /\ wh' = Reserve(wh)
    /\ th' = [th EXCEPT !.t[Popper] = [pc |-> "seq", pos |-> sq.dequeue_pos,
                                       next_token |-> Unwrap(NextToken), value |-> None,
                                       calls |-> th.t[Popper].calls + 1, ret |-> None]]
    /\ UNCHANGED sq
    /\ ExchUnchanged

\* pop_exch: the load of the node's sequence and the branch on diff;
\* diff < 0 returns Err(next_token), which run() gives back to the wheel
\* (wheel.release); diff > 0 loads dequeue_pos again.
XPopSeq ==
    /\ th.t[Popper].pc = "seq"
    /\ LET pos == th.t[Popper].pos
           diff == PopDiff(sq.buffer[NodeOf(sq, pos)].sequence, pos)
       IN  /\ th' =
                 IF diff = 0 THEN [th EXCEPT !.t[Popper].pc = "cas"]
                 ELSE IF diff < 0
                 THEN [th EXCEPT !.t[Popper].pc = "idle",
                                 !.t[Popper].ret =
                                     Some([ok |-> FALSE, token |-> th.t[Popper].next_token,
                                           sid |-> << 0, 0 >>])]
                 ELSE [th EXCEPT !.t[Popper].pos = sq.dequeue_pos]
           /\ wh' = IF diff < 0 THEN Release(wh, th.t[Popper].next_token) ELSE wh
    /\ UNCHANGED sq
    /\ ExchUnchanged

\* pop_exch: compare_and_swap(pos, pos+1) on dequeue_pos.
XPopCas ==
    /\ th.t[Popper].pc = "cas"
    /\ IF sq.dequeue_pos = th.t[Popper].pos
       THEN /\ sq' = [sq EXCEPT !.dequeue_pos = th.t[Popper].pos + 1]
            /\ th' = [th EXCEPT !.t[Popper].pc = "read"]
       ELSE /\ th' = [th EXCEPT !.t[Popper].pc = "seq",
                                !.t[Popper].pos = sq.dequeue_pos]
            /\ UNCHANGED sq
    /\ UNCHANGED wh
    /\ ExchUnchanged

\* pop_exch: ptr::read of the node's value; anything but Timeout(..) hits
\* unreachable!().
XPopRead ==
    /\ th.t[Popper].pc = "read"
    /\ LET v == sq.buffer[NodeOf(sq, th.t[Popper].pos)].value
       IN  th' = IF v.kind = "Timeout"
                 THEN [th EXCEPT !.t[Popper].pc = "write", !.t[Popper].value = Some(v)]
                 ELSE [th EXCEPT !.t[Popper].pc = "unreachable"]
    /\ UNCHANGED sq
    /\ UNCHANGED wh
    /\ ExchUnchanged

\* pop_exch: ptr::write of Token(next_token).
XPopWrite ==
    /\ th.t[Popper].pc = "write"
    /\ sq' = [sq EXCEPT !.buffer[NodeOf(sq, th.t[Popper].pos)].value =
                 [kind |-> "Token", token |-> th.t[Popper].next_token]]
    /\ th' = [th EXCEPT !.t[Popper].pc = "store"]
    /\ UNCHANGED wh
    /\ ExchUnchanged

\* pop_exch: sequence.store(pos + mask + 1, Release) and `return Ok(ret)`,
\* on which run() calls wheel.set_timeout(token, when, task).
XPopStore ==
    /\ th.t[Popper].pc = "store"
    /\ sq' = [sq EXCEPT !.buffer[NodeOf(sq, th.t[Popper].pos)].sequence =
                 th.t[Popper].pos + sq.mask + 1]
    /\ LET v == Unwrap(th.t[Popper].value)
       IN  /\ th' = [th EXCEPT !.t[Popper].pc = "idle",
                            !.t[Popper].ret =
                                Some([ok |-> TRUE, token |-> v.token, sid |-> v.sid]),
                            !.popped = Append(th.popped,
                                [sid |-> v.sid, token |-> v.token,
                                 pos |-> th.t[Popper].pos])]
           /\ wh' = set_timeout(wh, v.token, v.when, v.task, v.sid)
    /\ ExchUnchanged

\* run(): wheel.cancel of a linked timeout, between two calls of pop_exch;
\* its cell is free for a later wheel.reserve().
XCancel(token) ==
    /\ th.t[Popper].pc = "idle"
    /\ IsTimeout(wh, token)
    /\ wh' = cancel(wh, token, wh.slab.entries[token].when)
    /\ UNCHANGED << sq, th >>
    /\ ExchUnchanged

InitExchange ==
    /\ now = 0
    /\ wh = SpawnWheel
    /\ sq = ExchangeWithCapacity(ChannelCapacity, WheelNew)
    /\ mq = << >>
    /\ wk = [pc |-> "top", now |-> 0, token |-> FALSE]
    /\ sl = [p \in Producers |-> NoSleep]
    /\ note = None
    /\ fired = {}
    /\ cancelled = {}
    /\ moved = {}
    /\ stale = {}
    /\ kept = {}
    /\ timer = TRUE
    /\ th = InitThreads
    /\ last = NoCall
    /\ ad = NoAdapter

NextExchange ==
    \/ \E p \in Producers :
          \/ XPushCall(p)
          \/ XPushSeq(p)
          \/ XPushReload(p)
          \/ XPushCas(p)
          \/ XPushRead(p)
          \/ XPushWrite(p)
          \/ XPushStore(p)
    \/ XPopCall
    \/ XPopSeq
    \/ XPopCas
    \/ XPopRead
    \/ XPopWrite
    \/ XPopStore
    \/ \E token \in Tokens : XCancel(token)

SpecExchange == InitExchange /\ [][NextExchange]_vars

(***************************************************************************)
(* mpmc::Queue<T, U> (src/src/mpmc.rs) followed access by access: the ring *)
(* whose nodes carry a value and a token.  Producers call push             *)
(* concurrently and one consumer calls pop.  In this specification mq is   *)
(* that ring.  The token of a node is a plain field: a read of it that is  *)
(* concurrent with a write sees the value before or after the write.       *)
(***************************************************************************)
\* Queue::with_capacity: node i takes the token of the i-th call of init.
QueueWithCapacity(capacity) ==
    LET cap == RoundCapacity(capacity)
    IN  [buffer |-> [i \in 0 .. cap - 1 |->
                       [sequence |-> i, value |-> None, token |-> i]],
         mask |-> cap - 1,
         enqueue_pos |-> 0,
         dequeue_pos |-> 0]

QueueUnchanged ==
    UNCHANGED << now, wh, sq, wk, sl, note, fired, cancelled, moved, stale, kept, timer, last, ad >>

\* push is called: `let mut pos = self.enqueue_pos.load(Relaxed)`.
QPushCall(p) ==
    /\ th.t[p].pc = "idle"
    /\ th.t[p].calls < MaxPushes
    /\ th' = [th EXCEPT !.t[p] = [pc |-> "seq", pos |-> mq.enqueue_pos, token |-> EMPTY,
                                  calls |-> th.t[p].calls + 1, ret |-> None,
                                  wrote |-> FALSE, spun |-> FALSE]]
    /\ UNCHANGED mq
    /\ QueueUnchanged

\* push: the load of the node's sequence and the branch on diff; diff < 0
\* returns Err(value).
QPushSeq(p) ==
    /\ th.t[p].pc = "seq"
    /\ LET pos == th.t[p].pos
           diff == mq.buffer[NodeOf(mq, pos)].sequence - pos
       IN  th' = IF diff = 0 THEN [th EXCEPT !.t[p].pc = "cas"]
                 ELSE IF diff < 0
                 THEN [th EXCEPT !.t[p].pc = "idle",
                                 !.t[p].ret = Some([ok |-> FALSE, token |-> EMPTY,
                                                    task |-> RequestOf(p, th.t[p].calls).task]),
                                 !.full = th.full \cup {mq.enqueue_pos - Len(th.popped)}]
                 ELSE [th EXCEPT !.t[p].pc = "reload"]
    /\ UNCHANGED mq
    /\ QueueUnchanged

\* push: `pos = self.enqueue_pos.load(Relaxed)` after diff > 0.
QPushReload(p) ==
    /\ th.t[p].pc = "reload"
    /\ th' = [th EXCEPT !.t[p].pc = "seq", !.t[p].pos = mq.enqueue_pos]
    /\ UNCHANGED mq
    /\ QueueUnchanged

\* push: compare_and_swap(pos, pos+1) on enqueue_pos.  The history field
\* `token` takes the token the node holds as the push claims it.
QPushCas(p) ==
    /\ th.t[p].pc = "cas"
    /\ IF mq.enqueue_pos = th.t[p].pos
       THEN /\ mq' = [mq EXCEPT !.enqueue_pos = th.t[p].pos + 1]
            /\ th' = [th EXCEPT !.t[p].pc = "value", !.t[p].wrote = TRUE,
                                !.t[p].token = mq.buffer[NodeOf(mq, th.t[p].pos)].token]
       ELSE /\ th' = [th EXCEPT !.t[p].pc = "seq", !.t[p].pos = mq.enqueue_pos]
            /\ UNCHANGED mq
    /\ QueueUnchanged

\* push: `(*node.get()).value = Some(value)`.
QPushValue(p) ==
    /\ th.t[p].pc = "value"
    /\ mq' = [mq EXCEPT !.buffer[NodeOf(mq, th.t[p].pos)].value =
                 Some(RequestOf(p, th.t[p].calls).sid)]
    /\ th' = [th EXCEPT !.t[p].pc = "store"]
    /\ QueueUnchanged

\* push: `(*node.get()).sequence.store(pos+1, Release)`.
QPushStore(p) ==
    /\ th.t[p].pc = "store"
    /\ mq' = [mq EXCEPT !.buffer[NodeOf(mq, th.t[p].pos)].sequence = th.t[p].pos + 1]
    /\ th' = [th EXCEPT !.t[p].pc = "token"]
    /\ QueueUnchanged

\* push: `return Ok((*node.get()).token)`, the read of the node's token
\* after the store of its sequence.
QPushToken(p) ==
    /\ th.t[p].pc = "token"
    /\ LET token == mq.buffer[NodeOf(mq, th.t[p].pos)].token
       IN  th' = [th EXCEPT !.t[p].pc = "idle",
                            !.t[p].ret = Some([ok |-> TRUE, token |-> token,
                                               task |-> RequestOf(p, th.t[p].calls).task]),
                            !.pushed = th.pushed \cup
                                {[sid |-> RequestOf(p, th.t[p].calls).sid,
                                  token |-> token, pos |-> th.t[p].pos]}]
    /\ UNCHANGED mq
    /\ QueueUnchanged

\* The token the caller passes to pop: one the queue has not held.
FreshToken == RoundCapacity(ChannelCapacity) + Len(th.popped)

\* pop is called: `let mut pos = self.dequeue_pos.load(Relaxed)`.
QPopCall ==
    /\ th.t[Popper].pc = "idle"
    /\ th.t[Popper].calls < MaxPops
    /\ th' = [th EXCEPT !.t[Popper] = [pc |-> "seq", pos |-> mq.dequeue_pos,
                                       next_token |-> FreshToken, value |-> None,
                                       calls |-> th.t[Popper].calls + 1, ret |-> None]]
    /\ UNCHANGED mq
    /\ QueueUnchanged

\* pop: the load of the node's sequence and the branch on diff; diff < 0
\* returns Err(next_token), diff > 0 loads dequeue_pos again.
QPopSeq ==
    /\ th.t[Popper].pc = "seq"
    /\ LET pos == th.t[Popper].pos
           diff == mq.buffer[NodeOf(mq, pos)].sequence - (pos + 1)
       IN  th' = IF diff = 0 THEN [th EXCEPT !.t[Popper].pc = "cas"]
                 ELSE IF diff < 0
                 THEN [th EXCEPT !.t[Popper].pc = "idle",
                                 !.t[Popper].ret =
                                     Some([ok |-> FALSE, token |-> th.t[Popper].next_token,
                                           sid |-> << 0, 0 >>])]
                 ELSE [th EXCEPT !.t[Popper].pos = mq.dequeue_pos]
    /\ UNCHANGED mq
    /\ QueueUnchanged

\* pop: compare_and_swap(pos, pos+1) on dequeue_pos.
QPopCas ==
    /\ th.t[Popper].pc = "cas"
    /\ IF mq.dequeue_pos = th.t[Popper].pos
       THEN /\ mq' = [mq EXCEPT !.dequeue_pos = th.t[Popper].pos + 1]
            /\ th' = [th EXCEPT !.t[Popper].pc = "take"]
       ELSE /\ th' = [th EXCEPT !.t[Popper].pc = "seq",
                                !.t[Popper].pos = mq.dequeue_pos]
            /\ UNCHANGED mq
    /\ QueueUnchanged

\* pop: `let value = (*node.get()).value.take()`.  `some` tells whether a
\* value was there; value.unwrap() at the return panics when none was.
QPopTake ==
    /\ th.t[Popper].pc = "take"
    /\ LET i == NodeOf(mq, th.t[Popper].pos)
       IN  /\ th' = [th EXCEPT !.t[Popper].pc = "token",
                               !.t[Popper].value =
                                   Some([some |-> IsSome(mq.buffer[i].value),
                                         sid |-> UnwrapOr(mq.buffer[i].value, << 0, 0 >>),
                                         token |-> EMPTY])]
           /\ mq' = [mq EXCEPT !.buffer[i].value = None]
    /\ QueueUnchanged

\* pop: `let token = (*node.get()).token`.
QPopToken ==
    /\ th.t[Popper].pc = "token"
    /\ th' = [th EXCEPT !.t[Popper].pc = "store",
                        !.t[Popper].value =
                            Some([Unwrap(th.t[Popper].value) EXCEPT
                                     !.token = mq.buffer[NodeOf(mq, th.t[Popper].pos)].token])]
    /\ UNCHANGED mq
    /\ QueueUnchanged

\* pop: `(*node.get()).sequence.store(pos + mask + 1, Release)`.
QPopStore ==
    /\ th.t[Popper].pc = "store"
    /\ mq' = [mq EXCEPT !.buffer[NodeOf(mq, th.t[Popper].pos)].sequence =
                 th.t[Popper].pos + mq.mask + 1]
    /\ th' = [th EXCEPT !.t[Popper].pc = "next"]
    /\ QueueUnchanged

\* pop: `(*node.get()).token = next_token`, after the store of the
\* sequence, and `return Ok((value.unwrap(), token))`, where the unwrap of
\* None panics.
QPopNext ==
    /\ th.t[Popper].pc = "next"
    /\ mq' = [mq EXCEPT !.buffer[NodeOf(mq, th.t[Popper].pos)].token =
                 th.t[Popper].next_token]
    /\ LET v == Unwrap(th.t[Popper].value)
       IN  th' = IF v.some
                 THEN [th EXCEPT !.t[Popper].pc = "idle",
                                 !.t[Popper].ret =
                                     Some([ok |-> TRUE, token |-> v.token, sid |-> v.sid]),
                                 !.popped = Append(th.popped,
                                     [sid |-> v.sid, token |-> v.token,
                                      pos |-> th.t[Popper].pos])]
                 ELSE [th EXCEPT !.t[Popper].pc = "unreachable"]
    /\ QueueUnchanged

InitQueue ==
    /\ now = 0
    /\ wh = SpawnWheel
    /\ sq = ExchangeWithCapacity(ChannelCapacity, WheelNew)
    /\ mq = QueueWithCapacity(ChannelCapacity)
    /\ wk = [pc |-> "top", now |-> 0, token |-> FALSE]
    /\ sl = [p \in Producers |-> NoSleep]
    /\ note = None
    /\ fired = {}
    /\ cancelled = {}
    /\ moved = {}
    /\ stale = {}
    /\ kept = {}
    /\ timer = TRUE
    /\ th = InitThreads
    /\ last = NoCall
    /\ ad = NoAdapter

NextQueue ==
    \/ \E p \in Producers :
          \/ QPushCall(p)
          \/ QPushSeq(p)
          \/ QPushReload(p)
          \/ QPushCas(p)
          \/ QPushValue(p)
          \/ QPushStore(p)
          \/ QPushToken(p)
    \/ QPopCall
    \/ QPopSeq
    \/ QPopCas
    \/ QPopTake
    \/ QPopToken
    \/ QPopStore
    \/ QPopNext

SpecQueue == InitQueue /\ [][NextQueue]_vars

(***************************************************************************)
(* Worker::spawn for any Builder: channel_capacity, initial_capacity and   *)
(* max_capacity are inputs (max_capacity at least the slab's initial       *)
(* size), spawn runs step by step, and one producer then uses the timer.   *)
(***************************************************************************)
\* Wheel::new for a Builder with the given capacities.
WheelFor(initial_capacity, max_capacity, channel_capacity) ==
    [WheelNew EXCEPT !.slab = SlabWithCapacity(Max(initial_capacity, channel_capacity)),
                     !.max_capacity = max_capacity]

\* State::with_capacity before the first call of init: the nodes of the
\* rounded capacity, their tokens not yet set.
ExchangeEmpty(capacity) ==
    LET cap == RoundCapacity(capacity)
    IN  [buffer |-> [i \in 0 .. cap - 1 |->
                       [sequence |-> i, value |-> [kind |-> "Token", token |-> EMPTY]]],
         mask |-> cap - 1,
         enqueue_pos |-> 0,
         dequeue_pos |-> 0]

\* The `capacity` handed to Worker::spawn (history, kept in last.at).
SpawnCapacity == last.at

\* Worker::spawn has returned and run() is under way.
Spawned == last.op = "spawn" /\ last.ret = "Ok"

InitSpawn ==
    /\ now = 0
    /\ \E cc \in 1 .. MaxConfig : \E ic \in 1 .. MaxConfig :
          \E mc \in Max(ic, cc) .. MaxConfig + 1 :
             /\ wh = WheelFor(ic, mc, cc)
             /\ sq = ExchangeEmpty(cc)
             /\ last = [op |-> "new", at |-> cc, ret |-> "-"]
    /\ mq = << >>
    /\ wk = [pc |-> "new", now |-> 0, token |-> FALSE]
    /\ sl = [p \in Producers |-> NoSleep]
    /\ note = None
    /\ fired = {}
    /\ cancelled = {}
    /\ moved = {}
    /\ stale = {}
    /\ kept = {}
    /\ timer = TRUE
    /\ th = NoThreads
    /\ ad = NoAdapter

SpawnUnchanged ==
    UNCHANGED << now, mq, sl, note, fired, cancelled, moved, stale, kept, timer, th, ad >>

\* Worker::spawn: assert!(wheel.available() >= capacity).
SpawnAssert ==
    /\ wk.pc = "new"
    /\ IF Available(wh) >= SpawnCapacity
       THEN /\ wk' = [wk EXCEPT !.pc = "init"]
            /\ UNCHANGED last
       ELSE /\ wk' = [wk EXCEPT !.pc = "panicked"]
            /\ last' = [last EXCEPT !.op = "spawn", !.ret = "panic"]
    /\ UNCHANGED << wh, sq >>
    /\ SpawnUnchanged

\* State::with_capacity: one call of init, `wheel.reserve().unwrap()`, for
\* the next node of the rounded capacity.
SpawnInit ==
    /\ wk.pc = "init"
    /\ wh.slab.len < RoundCapacity(SpawnCapacity)
    /\ IF IsSome(ReserveToken(wh))
       THEN /\ wh' = Reserve(wh)
            /\ sq' = [sq EXCEPT !.buffer[wh.slab.len].value.token = Unwrap(ReserveToken(wh))]
            /\ UNCHANGED << wk, last >>
       ELSE /\ wk' = [wk EXCEPT !.pc = "panicked"]
            /\ last' = [last EXCEPT !.op = "spawn", !.ret = "panic"]
            /\ UNCHANGED << wh, sq >>
    /\ SpawnUnchanged

\* Worker::spawn: thread::spawn(move || run(rx, wheel)) and the return.
SpawnRun ==
    /\ wk.pc = "init"
    /\ wh.slab.len = RoundCapacity(SpawnCapacity)
    /\ wk' = [wk EXCEPT !.pc = "top"]
    /\ last' = [last EXCEPT !.op = "spawn", !.ret = "Ok"]
    /\ UNCHANGED << wh, sq >>
    /\ SpawnUnchanged

\* The user of the Timer that spawn returned: the clock, Timer::sleep and
\* the polls of the Sleep.
SpawnedTick == Spawned /\ Tick

SpawnedSleep == Spawned /\ \E d \in 0 .. MaxDur : NewSleep(1, d)

SpawnedPoll == Spawned /\ PollSleep(1, 1)

NextSpawn ==
    \/ SpawnAssert
    \/ SpawnInit
    \/ SpawnRun
    \/ SpawnedTick
    \/ SpawnedSleep
    \/ SpawnedPoll
    \/ WorkerPoll
    \/ WorkerSet
    \/ WorkerPark
    \/ WorkerWake
    \/ WorkerSpurious

SpecSpawn == InitSpawn /\ [][NextSpawn]_vars

(* Properties of the wheel                                                 *)
(***************************************************************************)
\* The tokens of the live Timeout entries.
Live(w) == {t \in DOMAIN w.slab.entries : w.slab.entries[t].kind = "Timeout"}

\* The tick an entry fires at.
EntryTick(w, t) == time_to_ticks(w, w.slab.entries[t].when)

\* The tokens reached from `t` along `next`, in at most n steps.
RECURSIVE Chain(_, _, _)
Chain(w, t, n) ==
    IF t = EMPTY \/ n = 0 \/ ~IsTimeout(w, t) THEN {}
    ELSE {t} \cup Chain(w, w.slab.entries[t].next, n - 1)

\* The entries linked in slot i.
SlotList(w, i) == Chain(w, w.wheel[i].head, MaxCapacity)

\* The last call was a poll that returned None: a drain has ended.
Drained == last.op = "poll" /\ last.ret = "None"

\* C4: when a loop of poll(at) calls has returned None, no live entry is
\* left whose tick is at or before the tick of `at`.
PollDrainsAllDue ==
    Drained => \A t \in Live(wh) : EntryTick(wh, t) > time_to_ticks(wh, last.at)

\* A drain has ended that went once round the wheel or more, past the slot
\* of an entry of a later lap, which is still live.
PollDrainsAllDueWitness ==
    /\ Drained
    /\ time_to_ticks(wh, last.at) >= NumSlots
    /\ \E t \in Live(wh) :
          wh.slab.entries[t].wheel_idx = ticks_to_wheel_idx(wh, time_to_ticks(wh, last.at))

\* C6: a poll fires no entry whose tick is after the tick polled to and
\* leaves each such entry linked in its slot; when the drain has ended the
\* slot's next_timeout is at or before the `when` of every entry left in
\* it, and no entry is left whose own tick has been reached.
CollisionKeepsLater ==
    /\ IsSome(note) =>
          /\ time_to_ticks(wh, Unwrap(note).when) <= time_to_ticks(wh, Unwrap(note).now)
          /\ \A t \in Live(wh) : t \in SlotList(wh, wh.slab.entries[t].wheel_idx)
    /\ Drained =>
          \A t \in Live(wh) :
             LET slot == wh.wheel[wh.slab.entries[t].wheel_idx]
             IN  /\ t \in SlotList(wh, wh.slab.entries[t].wheel_idx)
                 /\ IsSome(slot.next_timeout)
                 /\ Unwrap(slot.next_timeout) <= wh.slab.entries[t].when
                 /\ EntryTick(wh, t) > time_to_ticks(wh, last.at)

\* A poll has just fired an entry out of a slot that also holds a live
\* entry some laps later, whose tick the poll has not reached.
CollisionKeepsLaterWitness ==
    /\ IsSome(note)
    /\ \E t \in Live(wh) :
          /\ wh.slab.entries[t].wheel_idx =
                ticks_to_wheel_idx(wh, time_to_ticks(wh, Unwrap(note).when))
          /\ EntryTick(wh, t) > time_to_ticks(wh, Unwrap(note).now)
          /\ EntryTick(wh, t) - time_to_ticks(wh, Unwrap(note).when) >= NumSlots

(***************************************************************************)
(* Properties of the worker and the producers                              *)
(***************************************************************************)
\* The worker's last step notified the task of an entry a Sleep registered.
Notified == IsSome(note) /\ Unwrap(note).sid.p \in Producers

\* The Sleep (producer and generation) the last notification was for.
NotifiedSleep == << Unwrap(note).sid.p, Unwrap(note).sid.gen >>

\* The Sleep of producer p has pushed its request (its handle is Some), is
\* not dropped and its task has not been notified.
Awaiting(p) == sl[p].state = "live" /\ IsSome(sl[p].handle) /\ Sid(p) \notin fired

\* C1: a Sleep whose push_exch succeeded and that is not dropped is notified
\* by the worker in the end.  The worker notifies nothing once its thread
\* has ended, so the thread does not end while such a Sleep is waiting.
DeliveryNeverAbandoned ==
    wk.pc = "panicked" => \A p \in Producers : ~Awaiting(p)

\* C2: the worker never notifies the task of a Sleep that was dropped
\* before its entry fired and whose Cancel the mod-queue accepted; here
\* even in the case most favourable to the code, where the worker has
\* popped that Cancel while the entry was linked in the wheel.
CancelledNeverNotified ==
    Notified => NotifiedSleep \notin cancelled

\* C3: when the worker notifies the task of an entry registered with the
\* requested deadline D, the worker's `now` of that pass is at least
\* D - tick_duration, and the Sleep, if it still exists, is expired.
NoFireBeforeTolerance ==
    Notified =>
       /\ Unwrap(note).now >= Unwrap(note).sid.at - TickMs
       /\ LET s == sl[Unwrap(note).sid.p]
          IN  (s.state = "live" /\ s.gen = Unwrap(note).sid.gen) => is_expired(s, now)

\* A task was notified before the requested deadline, at the tick boundary
\* the deadline was snapped down to.
NoFireBeforeToleranceWitness ==
    /\ Notified
    /\ Unwrap(note).now < Unwrap(note).sid.at
    /\ Unwrap(note).when < Unwrap(note).sid.at
    /\ sl[Unwrap(note).sid.p].state = "live"

\* C5: when the worker notifies the task of an entry B, no live entry A
\* with a smaller tick is left in the wheel.
DeadlineOrder ==
    Notified =>
       \A t \in Live(wh) : EntryTick(wh, t) >= time_to_ticks(wh, Unwrap(note).when)

\* The set-queue has a free slot: fewer requests pushed and not yet popped
\* than the ring has slots.
SetQueueHasRoom == sq.enqueue_pos - sq.dequeue_pos < sq.mask + 1

\* The request the set-queue took last.
LastPushed(q) == q.buffer[BitAnd(q.enqueue_pos - 1, q.mask)].value

\* C7: a poll of a Sleep that is not expired and has no handle returns
\* Err(TooLong) when `when - now` exceeds max_timeout, and then pushes
\* nothing on either queue and leaves the handle None; otherwise it hands
\* the request to the set-queue: the queue takes (when, task) and the
\* handle becomes Some unless the queue is full.
TooLongRejected ==
    [][\A p \in Producers : \A task \in Tasks :
         (PollSleep(p, task) /\ ~is_expired(sl[p], now) /\ ~IsSome(sl[p].handle)) =>
            IF sl[p].when - now > MaxTimeout
            THEN /\ sl'[p].ret = "TooLong"
                 /\ sq' = sq /\ mq' = mq /\ wk' = wk
                 /\ sl'[p].handle = None
            ELSE /\ sl'[p].ret = "NotReady"
                 /\ mq' = mq
                 /\ IF SetQueueHasRoom
                    THEN /\ sq'.enqueue_pos = sq.enqueue_pos + 1
                         /\ LastPushed(sq').kind = "Timeout"
                         /\ LastPushed(sq').when = sl[p].when
                         /\ LastPushed(sq').task = task
                         /\ sl'[p].handle = Some(<< task, LastPushed(sq').token >>)
                    ELSE sq' = sq /\ sl'[p].handle = None
      ]_vars

\* One Sleep was rejected as TooLong while the other, whose duration left
\* was exactly max_timeout, was taken by the set-queue.
TooLongRejectedWitness ==
    \E p, q \in Producers :
        /\ sl[p].ret = "TooLong"
        /\ sl[q].ret = "NotReady" /\ IsSome(sl[q].handle)
        /\ \E i \in DOMAIN sq.buffer :
              /\ sq.buffer[i].value.kind = "Timeout"
              /\ sq.buffer[i].value.when = sl[q].when
              /\ sl[q].when - now = MaxTimeout

\* C8: a poll of a Sleep returns Ready exactly when now >= when - tolerance
\* at the poll, and a poll that returns Ready sends nothing to the worker
\* and leaves the handle as it was; so a Sleep of duration 0 (when <= now)
\* is Ready on its first poll.
SleepReadyIffExpired ==
    [][\A p \in Producers : \A task \in Tasks :
         PollSleep(p, task) =>
            /\ (sl'[p].ret = "Ready") <=> (now >= sl[p].when - Tolerance)
            /\ (sl'[p].ret = "Ready") =>
                  /\ sq' = sq /\ mq' = mq /\ wk' = wk
                  /\ sl'[p].handle = sl[p].handle
            /\ (sl[p].ret = "-" /\ sl[p].when <= now) => sl'[p].ret = "Ready"
      ]_vars

\* A Sleep that had registered its timeout was polled again and was Ready,
\* before its deadline but within the tolerance, with its handle kept.
SleepReadyIffExpiredWitness ==
    \E p \in Producers :
        /\ sl[p].ret = "Ready"
        /\ IsSome(sl[p].handle)
        /\ now < sl[p].when


(***************************************************************************)
(* Properties of Timeout<F> and TimeoutStream<S>                           *)
(***************************************************************************)
\* C9: a poll of a Timeout at which the inner future is Ready or Err
\* returns that result and does not touch the Sleep, also when the deadline
\* has passed; the poll fails with TimedOut, the inner future taken out of
\* the Timeout, exactly when the inner future is NotReady and the Sleep is
\* expired.
TimeoutPollsInnerFirst ==
    [][\A inner \in FutureResults : \A task \in Tasks :
         PollTimeout(inner, task) =>
            /\ inner # "NotReady" =>
                  /\ ad'.ret = inner
                  /\ ad'.held
                  /\ ad'.sleep = ad.sleep
                  /\ sq' = sq /\ mq' = mq /\ wk' = wk
            /\ (ad'.ret = "TimedOut") <=>
                  (inner = "NotReady" /\ now >= ad.sleep.when - Tolerance)
            /\ ad'.ret = "TimedOut" => ~ad'.held
      ]_vars

\* The inner future's result was returned at a poll made after the
\* deadline had passed.
TimeoutPollsInnerFirstWitness ==
    /\ ad.kind = "timeout"
    /\ ad.ret \in {"Ready", "Err"}
    /\ ad.late

\* C10: a poll of a TimeoutStream at which the inner stream yields a value
\* returns it and replaces the Sleep by one with the deadline
\* now + duration and no handle, the old Sleep sending its Cancel if it had
\* a handle (the mod-queue drops it when full); the poll returns TimedOut
\* only when the inner stream is NotReady and duration - tolerance has
\* passed since the last reset; the end of the inner stream is returned as
\* it is.
StreamResetsDeadline ==
    [][\A inner \in StreamResults : \A task \in Tasks :
         PollStream(inner, task) =>
            /\ inner = "Item" =>
                  /\ ad'.ret = "Item"
                  /\ ad'.held
                  /\ ad'.sleep.when = now + ad.duration
                  /\ ad'.sleep.handle = None
                  /\ sq' = sq
                  /\ mq' = IF IsSome(ad.sleep.handle) /\ Len(mq) < ModCapacity
                           THEN Append(mq, [kind |-> "Cancel",
                                            token |-> Unwrap(ad.sleep.handle)[2],
                                            when |-> ad.sleep.when,
                                            sid |-> << 0, ad.sleep.gen >>])
                           ELSE mq
            /\ ad'.ret = "TimedOut" =>
                  /\ inner = "NotReady"
                  /\ now - ad.reset >= ad.duration - Tolerance
            /\ inner = "End" =>
                  /\ ad'.ret = "End"
                  /\ ad'.sleep = ad.sleep
                  /\ sq' = sq /\ mq' = mq
      ]_vars

\* The stream yielded a value some time after its Sleep had registered a
\* timeout: the Sleep was replaced and the Cancel of the old one is in the
\* mod-queue.
StreamResetsDeadlineWitness ==
    /\ ad.kind = "stream"
    /\ ad.ret = "Item"
    /\ ad.reset > 0
    /\ ad.sleep.handle = None
    /\ ad.sleep.when = ad.reset + ad.duration
    /\ \E i \in DOMAIN mq : mq[i].kind = "Cancel" /\ mq[i].sid = << 0, ad.sleep.gen - 1 >>

(***************************************************************************)
(* Properties of Interval                                                  *)
(***************************************************************************)
\* C11: a poll of an Interval never returns the end of the stream, and a
\* poll that yields a tick schedules a Sleep on the same timer whose
\* deadline is exactly `duration` after the deadline of the Sleep that has
\* just fired.
IntervalFixedSpacing ==
    [][\A task \in Tasks :
         PollInterval(task) =>
            /\ ad'.ret \in {"NotReady", "Tick", "TimerErr"}
            /\ ad'.ret = "Tick" =>
                  /\ ad'.sleep.state = "live"
                  /\ ad'.sleep.when = ad.sleep.when + ad.duration
      ]_vars

(***************************************************************************)
(* Properties of the queues between the producers and the worker           *)
(***************************************************************************)
\* C12: a poll of a Sleep that has to submit its request (not expired, no
\* handle, not too long) while the set-queue is full notifies its own task,
\* returns NotReady, leaves the handle None and changes neither queue nor
\* the worker's unpark token; a later such poll that finds room submits the
\* request and takes a handle.
SetQueueFullRetries ==
    [][\A p \in Producers : \A task \in Tasks :
         (/\ PollSleep(p, task)
          /\ ~is_expired(sl[p], now)
          /\ ~IsSome(sl[p].handle)
          /\ ~IsTooLong(sl[p], now)) =>
            IF SetQueueHasRoom
            THEN /\ sl'[p].ret = "NotReady"
                 /\ ~sl'[p].renotify
                 /\ IsSome(sl'[p].handle)
                 /\ sq'.enqueue_pos = sq.enqueue_pos + 1
                 /\ LastPushed(sq').when = sl[p].when
            ELSE /\ sl'[p].ret = "NotReady"
                 /\ sl'[p].renotify
                 /\ sl'[p].handle = None
                 /\ sq' = sq /\ mq' = mq /\ wk' = wk
      ]_vars

\* The set-queue holds a request in every slot and the Sleep polled last
\* was turned away: it notified its own task and has no handle.
SetQueueFullRetriesWitness ==
    /\ ~SetQueueHasRoom
    /\ \E p \in Producers :
          /\ sl[p].state = "live"
          /\ sl[p].ret = "NotReady"
          /\ sl[p].renotify
          /\ sl[p].handle = None

\* C13: a poll of a Sleep that has not expired and holds a handle, made
\* by the task stored in the handle, returns NotReady and changes neither
\* queue nor the handle; made by another task, it appends exactly one
\* Move with the handle's token, the Sleep's deadline and the new task and
\* stores the new task in the handle if the mod-queue takes it, and
\* otherwise leaves the mod-queue and the handle as they were and notifies
\* the polling task.
RepollProtocol ==
    [][\A p \in Producers : \A task \in Tasks :
         (/\ PollSleep(p, task)
          /\ ~is_expired(sl[p], now)
          /\ IsSome(sl[p].handle)) =>
            /\ sl'[p].ret = "NotReady"
            /\ sq' = sq
            /\ IF Unwrap(sl[p].handle)[1] = task
               THEN /\ mq' = mq
                    /\ sl'[p].handle = sl[p].handle
                    /\ ~sl'[p].renotify
               ELSE IF Len(mq) < ModCapacity
               THEN /\ Len(mq') = Len(mq) + 1
                    /\ SubSeq(mq', 1, Len(mq)) = mq
                    /\ mq'[Len(mq')].kind = "Move"
                    /\ mq'[Len(mq')].token = Unwrap(sl[p].handle)[2]
                    /\ mq'[Len(mq')].when = sl[p].when
                    /\ mq'[Len(mq')].task = task
                    /\ sl'[p].handle = Some(<< task, Unwrap(sl[p].handle)[2] >>)
                    /\ ~sl'[p].renotify
               ELSE /\ mq' = mq
                    /\ sl'[p].handle = sl[p].handle
                    /\ sl'[p].renotify
      ]_vars

\* The mod-queue is full, its last message is the Move that gave the
\* Sleep's handle its task, and the poll of the other task that followed
\* was turned away.
RepollProtocolWitness ==
    \E p \in Producers :
        /\ sl[p].state = "live"
        /\ IsSome(sl[p].handle)
        /\ sl[p].renotify
        /\ Len(mq) = ModCapacity
        /\ mq[Len(mq)].kind = "Move"
        /\ mq[Len(mq)].task = Unwrap(sl[p].handle)[1]
        /\ mq[Len(mq)].token = Unwrap(sl[p].handle)[2]

\* C14: when the worker has popped the Move of a Sleep while that Sleep's
\* entry was linked in the wheel, the firing of the entry notifies the task
\* of the last such Move.
HandOverTakesEffect ==
    Notified =>
        \A m \in moved : m[1] = NotifiedSleep => Unwrap(note).task = m[2]

\* The cells of the wheel's slab that hold the entry of the Sleep `sid`
\* (producer and generation).
EntriesOf(w, sid) ==
    {t \in Live(w) : << w.slab.entries[t].sid.p, w.slab.entries[t].sid.gen >> = sid}

\* C15: the drop of a Sleep appends one Cancel with the handle's token and
\* the Sleep's deadline to the mod-queue when the handle is Some and the
\* queue has room, and leaves the mod-queue as it was when the handle is
\* None or the queue is full; and a notification by the worker is the first
\* one for its Sleep and leaves the Sleep's entry in no slot list and its
\* slab cell vacant.
DropCancelsAndFiresOnce ==
    [][/\ \A p \in Producers :
             DropSleep(p) =>
                IF IsSome(sl[p].handle) /\ Len(mq) < ModCapacity
                THEN /\ Len(mq') = Len(mq) + 1
                     /\ SubSeq(mq', 1, Len(mq)) = mq
                     /\ mq'[Len(mq')].kind = "Cancel"
                     /\ mq'[Len(mq')].token = Unwrap(sl[p].handle)[2]
                     /\ mq'[Len(mq')].when = sl[p].when
                ELSE mq' = mq
       /\ (WorkerPoll /\ Notified') =>
             /\ NotifiedSleep' \notin fired
             /\ EntriesOf(wh', NotifiedSleep') = {}
             /\ \A t \in EntriesOf(wh, NotifiedSleep') :
                   /\ ~SlabFilled(wh'.slab, t)
                   /\ \A i \in DOMAIN wh'.wheel : t \notin SlotList(wh', i)
      ]_vars

\* The worker has just notified the task of a Sleep that had been dropped
\* with its handle Some, while the Cancels of two dropped Sleeps fill the
\* mod-queue.
DropCancelsAndFiresOnceWitness ==
    /\ Notified
    /\ sl[Unwrap(note).sid.p].gen > Unwrap(note).sid.gen
    /\ Len(mq) = ModCapacity
    /\ \A i \in DOMAIN mq : mq[i].kind = "Cancel"

\* C16: a Cancel or a Move that the worker pops after the entry of the
\* Sleep that sent it has fired leaves the wheel as it was, also when its
\* token now carries the timeout of another Sleep.
LateModHarmless ==
    [][(WorkerMod /\ Head(mq).sid \in fired) => wh' = wh]_vars

\* The worker has popped the Move and then the Cancel of a Sleep of one
\* producer after that Sleep's entry had fired, while the token carried the
\* timeout of the other producer's Sleep; that Sleep is still registered
\* under the token and its entry is linked with the task it was set with.
LateModHarmlessWitness ==
    \E x \in stale : \E y \in stale :
        /\ x[3] = "Move"
        /\ y[3] = "Cancel"
        /\ y[1] = x[1]
        /\ y[2] = x[2]
        /\ x[1][1] # x[2][1]
        /\ sl[x[2][1]].state = "live"
        /\ sl[x[2][1]].gen = x[2][2]
        /\ \E t \in EntriesOf(wh, x[2]) :
              /\ sl[x[2][1]].handle = Some(<< 1, t >>)
              /\ wh.slab.entries[t].task = 1

\* The token held in the handle of producer p's Sleep.
HeldToken(p) == Unwrap(sl[p].handle)[2]

\* The request of producer p's Sleep waits in the set-queue with token t.
PendingWith(p, t) ==
    \E i \in DOMAIN sq.buffer :
        /\ sq.buffer[i].value.kind = "Timeout"
        /\ sq.buffer[i].value.token = t
        /\ sq.buffer[i].value.sid.p = p
        /\ sq.buffer[i].value.sid.gen = sl[p].gen

\* C17: two Sleeps that exist at the same time (neither dropped) and have
\* both received a token from push_exch hold different tokens.
TokenNotReusedWhileHeld ==
    \A p, q \in Producers :
        (/\ p # q
         /\ sl[p].state = "live" /\ IsSome(sl[p].handle)
         /\ sl[q].state = "live" /\ IsSome(sl[q].handle)) =>
            HeldToken(p) # HeldToken(q)

\* C17, amended: while a Sleep that has received a token exists and its
\* entry has not fired, the token is that of its request in the set-queue
\* or of its entry in the wheel, and no other Sleep holds the token unless
\* that one's entry has fired.
TokenOwnedUntilFired ==
    \A p \in Producers :
        (sl[p].state = "live" /\ IsSome(sl[p].handle) /\ Sid(p) \notin fired) =>
            /\ PendingWith(p, HeldToken(p)) \/ EntriesOf(wh, Sid(p)) = {HeldToken(p)}
            /\ \A q \in Producers \ {p} :
                  (/\ sl[q].state = "live" /\ IsSome(sl[q].handle)
                   /\ HeldToken(q) = HeldToken(p)) => Sid(q) \in fired

\* Two Sleeps exist and hold the same token: the entry of one has fired,
\* the other's is live in the wheel under that token.
TokenOwnedUntilFiredWitness ==
    \E p, q \in Producers :
        /\ p # q
        /\ sl[p].state = "live" /\ IsSome(sl[p].handle)
        /\ sl[q].state = "live" /\ IsSome(sl[q].handle)
        /\ HeldToken(p) = HeldToken(q)
        /\ Sid(p) \in fired
        /\ EntriesOf(wh, Sid(q)) = {HeldToken(q)}

\* The set request of the Sleep `sid` (producer and generation) is in the
\* set-queue, not yet popped by the worker.
SetPending(sid) ==
    \E i \in DOMAIN sq.buffer :
        /\ sq.buffer[i].value.kind = "Timeout"
        /\ << sq.buffer[i].value.sid.p, sq.buffer[i].value.sid.gen >> = sid

\* C18: when the worker pops the Move or the Cancel of a Sleep from the
\* mod-queue, it has already popped that Sleep's set request and applied it
\* to the wheel.
SetBeforeMod ==
    [][WorkerMod => ~SetPending(Head(mq).sid)]_vars

\* A set request is in the set-queue, not yet popped by the worker.
SetQueueNonEmpty == sq.enqueue_pos > sq.dequeue_pos

\* C19: the worker is never parked without its unpark token while a set
\* request waits in the set-queue: the park that follows a push, or that
\* is under way at the push, returns because of the producer's unpark.
NoLostWakeup ==
    (wk.pc = "parked" /\ SetQueueNonEmpty) => wk.token

(***************************************************************************)
(* Properties of the worker's park                                         *)
(***************************************************************************)
\* C20: at the end of a pass, with the clock read again and next the
\* wheel's next_timeout, the worker parks with a timeout when next is later
\* than now, parks without one when there is no next, and starts the next
\* pass when next is earlier than now, without computing next - now.  (For
\* next = now a park of zero length and an immediate pass are the same.)
ParkRule ==
    [][WorkerPark =>
         LET next == next_timeout(wh)
         IN  IF ~IsSome(next) THEN wk'.pc = "parked"
             ELSE IF Unwrap(next) > now THEN wk'.pc = "parked"
             ELSE IF Unwrap(next) < now THEN wk'.pc = "top"
             ELSE wk'.pc \in {"parked", "top"}
      ]_vars

\* No handle to the timer is left: the Timer is dropped and so is every
\* Sleep, each of which holds a clone of it.
ShutDown == ~timer /\ \A p \in Producers : sl[p].state = "none"

\* C21: once the timer is shut down the worker leaves its loop, so it is
\* not found in a park without timeout and without unpark token, which
\* nothing but a spurious return ends and after which the loop goes round
\* again.
WorkerExitsOnShutdown ==
    ShutDown => ~(wk.pc = "parked" /\ ~wk.token /\ ~IsSome(next_timeout(wh)))

(***************************************************************************)
(* Properties of the tokens and of the slab                                *)
(***************************************************************************)
\* The token a set-queue slot holds, in SetTimeout::Token or in
\* SetTimeout::Timeout.
SlotToken(q, i) == q.buffer[i].value.token

\* C22: between the steps of push_exch and pop_exch every set-queue slot
\* holds one token, no token is in two slots, and the token of a slot,
\* holding a request or not, is a Reserved cell of the slab and so no live
\* Timeout entry.
SetQueueSlotTokens ==
    /\ \A i \in DOMAIN sq.buffer :
          /\ sq.buffer[i].value.kind \in {"Token", "Timeout"}
          /\ IsReserved(wh, SlotToken(sq, i))
          /\ ~IsTimeout(wh, SlotToken(sq, i))
    /\ \A i, j \in DOMAIN sq.buffer : i # j => SlotToken(sq, i) # SlotToken(sq, j)

\* A token that carried a timeout which has fired, and which the Sleep
\* still has in its handle, is back in a set-queue slot, while another
\* slot holds a request and the wheel a live entry.
SetQueueSlotTokensWitness ==
    /\ Live(wh) # {}
    /\ \E i \in DOMAIN sq.buffer : sq.buffer[i].value.kind = "Timeout"
    /\ \E p \in Producers :
          /\ sl[p].state = "live" /\ IsSome(sl[p].handle)
          /\ Sid(p) \in fired
          /\ \E i \in DOMAIN sq.buffer :
                sq.buffer[i].value.kind = "Token" /\ SlotToken(sq, i) = HeldToken(p)

\* The occupied cells of the slab.
Occupied(w) == {t \in DOMAIN w.slab.entries : SlabFilled(w.slab, t)}

\* C23: outside the worker's set-queue drain step the occupied cells of
\* the slab are as many as the set-queue has slots plus the live Timeout
\* entries; and a turn of the drain leaves the token it reserved in the
\* set-queue, when it popped a request, or vacant again, when it did not.
TokenConservation ==
    /\ [](/\ Cardinality(Occupied(wh)) = (sq.mask + 1) + Cardinality(Live(wh))
          /\ wh.slab.len = Cardinality(Occupied(wh)))
    /\ [][(WorkerSet /\ IsSome(ReserveToken(wh))) =>
            IF sq'.dequeue_pos = sq.dequeue_pos + 1
            THEN /\ SlotToken(sq', BitAnd(sq.dequeue_pos, sq.mask)) = Unwrap(ReserveToken(wh))
                 /\ IsReserved(wh', Unwrap(ReserveToken(wh)))
            ELSE /\ sq' = sq
                 /\ ~SlabFilled(wh'.slab, Unwrap(ReserveToken(wh)))
                 /\ Live(wh') = Live(wh)
         ]_vars

\* The worker has left the drain step by releasing the token it had
\* reserved, after the slab has grown, with two live entries in the wheel.
TokenConservationWitness ==
    /\ wk.pc = "mod"
    /\ SlabCap(wh.slab) > GetInitialCapacity
    /\ Cardinality(Live(wh)) >= 2
    /\ SlabHasVacant(wh.slab)
    /\ sq.enqueue_pos = sq.dequeue_pos

\* The Reserved cells of the slab.
ReservedCells(w) == {t \in DOMAIN w.slab.entries : IsReserved(w, t)}

\* C24: after any sequence of reserve, release, set_timeout, move_timeout,
\* cancel and poll, available() plus the live Timeout cells plus the
\* Reserved cells is the slab's size.
SlabAccounting ==
    Available(wh) + Cardinality(Live(wh)) + Cardinality(ReservedCells(wh))
        = SlabCap(wh.slab)

\* A poll has just fired an entry out of a slab that has grown and holds a
\* live entry, a Reserved cell and a vacant one.
SlabAccountingWitness ==
    /\ IsSome(note)
    /\ SlabCap(wh.slab) > GetInitialCapacity
    /\ Live(wh) # {}
    /\ ReservedCells(wh) # {}
    /\ Available(wh) > 0

\* C25: reserve grows a full slab by min(len, max_capacity - len) cells
\* and returns None when that is 0, and so, whatever the Builder's settings
\* and the operations made, the slab has at most max_capacity cells and
\* never loses one.
BoundedGrowth ==
    /\ [](SlabCap(wh.slab) <= wh.max_capacity)
    /\ [][/\ SlabCap(wh'.slab) >= SlabCap(wh.slab)
          /\ (GReserve \/ GReserveOverflow) =>
                IF SlabHasVacant(wh.slab)
                THEN SlabCap(wh'.slab) = SlabCap(wh.slab) /\ last'.ret = "Some"
                ELSE /\ SlabCap(wh'.slab) - SlabCap(wh.slab)
                          = Min(wh.slab.len, wh.max_capacity - wh.slab.len)
                     /\ (last'.ret = "None") <=> (SlabCap(wh'.slab) = SlabCap(wh.slab))
         ]_vars

(***************************************************************************)
(* Properties of the slots                                                 *)
(***************************************************************************)
\* The `when` of the entries linked in slot i.
SlotWhens(w, i) == {w.slab.entries[t].when : t \in SlotList(w, i)}

\* The worker is not inside its loop of wheel.poll(now) calls.
DrainComplete == wk.pc # "poll"

\* C26: outside a poll drain, a slot's next_timeout, when Some, is the
\* least `when` of the live entries linked in the slot.
ExactSlotMinimum ==
    DrainComplete =>
       \A i \in DOMAIN wh.wheel :
          IsSome(wh.wheel[i].next_timeout) =>
             /\ Unwrap(wh.wheel[i].next_timeout) \in SlotWhens(wh, i)
             /\ \A x \in SlotWhens(wh, i) : Unwrap(wh.wheel[i].next_timeout) <= x

\* The worker is at the point of run() where it reads
\* wheel.next_timeout() to park.
AboutToPark == wk.pc = "mod" /\ mq = << >>

\* C27: where the worker reads wheel.next_timeout() to park, every slot
\* with a non-empty list has next_timeout Some(t) with t at or before
\* every `when` of the list, so that next_timeout() is Some and at or
\* before the earliest `when` of a live entry if there is one; and the
\* worker is not parked without a timeout while the wheel holds a live
\* entry.
NeverSleepsPastEntry ==
    /\ AboutToPark =>
          /\ \A i \in DOMAIN wh.wheel :
                SlotList(wh, i) # {} =>
                   /\ IsSome(wh.wheel[i].next_timeout)
                   /\ \A x \in SlotWhens(wh, i) : Unwrap(wh.wheel[i].next_timeout) <= x
          /\ Live(wh) # {} =>
                /\ IsSome(next_timeout(wh))
                /\ \A t \in Live(wh) : Unwrap(next_timeout(wh)) <= wh.slab.entries[t].when
    /\ (wk.pc = "parked" /\ Live(wh) # {}) =>
          /\ IsSome(next_timeout(wh))
          /\ \A t \in Live(wh) : Unwrap(next_timeout(wh)) <= wh.slab.entries[t].when

\* The worker is parked with a timeout while a slot holds a live entry
\* and a next_timeout earlier than the `when` of every entry linked in it,
\* left there by a cancel.
NeverSleepsPastEntryWitness ==
    /\ wk.pc = "parked"
    /\ cancelled # {}
    /\ \E i \in DOMAIN wh.wheel :
          /\ SlotList(wh, i) # {}
          /\ \A x \in SlotWhens(wh, i) : Unwrap(wh.wheel[i].next_timeout) < x

(***************************************************************************)
(* Properties of the wheel's position                                      *)
(***************************************************************************)
\* C28: no call of poll, set_timeout, move_timeout or cancel lowers
\* cur_wheel_tick, also no poll at an instant before that of an earlier
\* poll; and after a poll(at) that returned None cur_wheel_tick is at
\* least time_to_ticks(at) + 1.
TickNeverDecreases ==
    [][/\ wh'.cur_wheel_tick >= wh.cur_wheel_tick
       /\ (last'.op = "poll" /\ last'.ret = "None") =>
             wh'.cur_wheel_tick >= time_to_ticks(wh', last'.at) + 1
      ]_vars

\* A poll at an instant two ticks or more before the wheel's position has
\* returned None, with a live entry in the wheel.
TickNeverDecreasesWitness ==
    /\ Drained
    /\ last.at < now
    /\ wh.cur_wheel_tick > time_to_ticks(wh, last.at) + 1
    /\ Live(wh) # {}

\* C29: set_timeout places a request whose tick is at or before
\* cur_wheel_tick at cur_wheel_tick + 1 and any other at its own tick, so
\* the entry's tick is after cur_wheel_tick when it is inserted; and in
\* every state the tick of every live entry is at least cur_wheel_tick and
\* its wheel_idx is tick & mask.
DeferToNext ==
    /\ [](\A t \in Live(wh) :
             /\ EntryTick(wh, t) >= wh.cur_wheel_tick
             /\ wh.slab.entries[t].wheel_idx = BitAnd(EntryTick(wh, t), wh.mask)
             /\ wh.slab.entries[t].when = ActualTick(wh, EntryTick(wh, t)))
    /\ [][\A token \in Tokens :
            (IsReserved(wh, token) /\ ~IsReserved(wh', token)) =>
               \A at \in 0 .. MaxWheelTime + 1 :
                  WSetTimeout(token, at, 1) =>
                     /\ IsTimeout(wh', token)
                     /\ EntryTick(wh', token) =
                           IF time_to_ticks(wh, at) <= wh.cur_wheel_tick
                           THEN wh.cur_wheel_tick + 1
                           ELSE time_to_ticks(wh, at)
                     /\ EntryTick(wh', token) > wh.cur_wheel_tick
         ]_vars

\* In the middle of a drain, with the wheel's position past its first lap:
\* a live entry at the very tick the wheel is at and one at the next tick.
DeferToNextWitness ==
    /\ wh.cur_wheel_tick >= NumSlots
    /\ \E t \in Live(wh) : EntryTick(wh, t) = wh.cur_wheel_tick
    /\ \E t \in Live(wh) : EntryTick(wh, t) = wh.cur_wheel_tick + 1

\* The walk from `t` along `next` ends at EMPTY within n steps, over live
\* Timeout entries only.
RECURSIVE ChainEnds(_, _, _)
ChainEnds(w, t, n) ==
    IF t = EMPTY THEN TRUE
    ELSE IF n = 0 \/ ~IsTimeout(w, t) THEN FALSE
    ELSE ChainEnds(w, w.slab.entries[t].next, n - 1)

\* C30: after any sequence of set_timeout, cancel, move_timeout and poll,
\* every live Timeout entry is reached from the head of the slot its
\* wheel_idx names and of no other, the head of a list has prev == EMPTY,
\* the `next` of an entry is EMPTY or a live Timeout whose prev is that
\* entry, every list ends (no cycle), and no Reserved or vacant cell is
\* linked.
SlotListsWellFormed ==
    /\ \A t \in Live(wh) :
          /\ wh.slab.entries[t].wheel_idx \in DOMAIN wh.wheel
          /\ \A i \in DOMAIN wh.wheel :
                (t \in SlotList(wh, i)) <=> (i = wh.slab.entries[t].wheel_idx)
          /\ wh.slab.entries[t].next # EMPTY =>
                /\ IsTimeout(wh, wh.slab.entries[t].next)
                /\ wh.slab.entries[wh.slab.entries[t].next].prev = t
          /\ wh.slab.entries[t].prev # EMPTY =>
                /\ IsTimeout(wh, wh.slab.entries[t].prev)
                /\ wh.slab.entries[wh.slab.entries[t].prev].next = t
    /\ \A i \in DOMAIN wh.wheel :
          /\ wh.wheel[i].head # EMPTY =>
                /\ IsTimeout(wh, wh.wheel[i].head)
                /\ wh.slab.entries[wh.wheel[i].head].prev = EMPTY
          /\ ChainEnds(wh, wh.wheel[i].head, Cardinality(Live(wh)))

\* A poll has just fired an entry out of a list and stands inside it, two
\* entries still linked in one slot; the cell of the fired entry is vacant.
SlotListsWellFormedWitness ==
    /\ IsSome(note)
    /\ wh.cur_slab_idx # EMPTY
    /\ \E i \in DOMAIN wh.wheel : Cardinality(SlotList(wh, i)) >= 2
    /\ Available(wh) > 0
(***************************************************************************)
(* Properties of the poll cursor and of the order of firing                *)
(***************************************************************************)
\* C31: in every state cur_slab_idx is EMPTY or the token of a live Timeout
\* entry linked in the slot of cur_wheel_tick, also after a cancel of the
\* entry the cursor stands at and after cells were freed and reserved
\* again: poll never reads a vacant or a Reserved cell.
CursorValid ==
    \/ wh.cur_slab_idx = EMPTY
    \/ /\ IsTimeout(wh, wh.cur_slab_idx)
       /\ wh.cur_slab_idx \in
             SlotList(wh, ticks_to_wheel_idx(wh, wh.cur_wheel_tick))

\* The cursor stands inside a list, past its head, at a live entry, while
\* a cell that was freed is vacant below a live one.
CursorValidWitness ==
    /\ wh.cur_slab_idx # EMPTY
    /\ IsTimeout(wh, wh.cur_slab_idx)
    /\ wh.slab.entries[wh.cur_slab_idx].prev # EMPTY
    /\ \E t \in Live(wh) : wh.slab.next < t

\* The tokens reached from `t` along `prev`, in at most n steps: with `t`
\* the prev of an entry, the entries nearer the head of its list, which
\* set_timeout inserted after it.
RECURSIVE Ahead(_, _, _)
Ahead(w, t, n) ==
    IF t = EMPTY \/ n = 0 \/ ~IsTimeout(w, t) THEN {}
    ELSE {t} \cup Ahead(w, w.slab.entries[t].prev, n - 1)

\* C32: the entries of one slot that are due in one drain of the worker
\* leave head-first, in the reverse of the order of their insertion:
\* whenever a poll of the drain at instant t returns an entry, no entry
\* nearer the head of that entry's list is due at t (such an entry was
\* inserted later and the same drain returns it later).
LifoWithinSlot ==
    [][(wk.pc \in {"top", "poll"} /\ wk'.pc = "poll") =>
          LET t == IF wk.pc = "top" THEN now ELSE wk.now
              r == poll(wh, t)
          IN  IsSome(r.fired) =>
                 \A z \in Ahead(wh, Unwrap(r.fired).prev, MaxCapacity) :
                    ~IsDue(wh, wh.slab.entries[z].when, t)
      ]_vars

(***************************************************************************)
(* Frame conditions                                                        *)
(***************************************************************************)
\* The wheel r differs from w in nothing but the task of the entry at
\* `token`, which is `task` in r.
OnlyTaskChanged(w, r, token, task) ==
    /\ r.wheel = w.wheel
    /\ r.cur_wheel_tick = w.cur_wheel_tick
    /\ r.cur_slab_idx = w.cur_slab_idx
    /\ r.start = w.start
    /\ r.max_capacity = w.max_capacity
    /\ r.slab.len = w.slab.len
    /\ r.slab.next = w.slab.next
    /\ DOMAIN r.slab.entries = DOMAIN w.slab.entries
    /\ \A c \in DOMAIN w.slab.entries :
          c # token => r.slab.entries[c] = w.slab.entries[c]
    /\ r.slab.entries[token].kind = "Timeout"
    /\ r.slab.entries[token].task = task
    /\ r.slab.entries[token].when = w.slab.entries[token].when
    /\ r.slab.entries[token].wheel_idx = w.slab.entries[token].wheel_idx
    /\ r.slab.entries[token].prev = w.slab.entries[token].prev
    /\ r.slab.entries[token].next = w.slab.entries[token].next

\* C33: in every state the wheel reaches, move_timeout(token, when, task)
\* on a Timeout cell whose stored `when` is the given one changes that
\* entry's task and nothing else (its when, wheel_idx, prev and next, the
\* slots' heads and next_timeouts, cur_wheel_tick, cur_slab_idx and the
\* slab's occupancy stay), and on a vacant cell, a Reserved cell or a
\* Timeout with another `when` it leaves the whole wheel as it was.
MoveTimeoutFrame ==
    \A token \in Tokens : \A task \in Tasks :
       \A when \in Whens(token) \cup {wh.start + wh.tick_ms * wh.cur_wheel_tick} :
          LET r == move_timeout(wh, token, when, task)
          IN  IF IsTimeout(wh, token) /\ wh.slab.entries[token].when = when
              THEN OnlyTaskChanged(wh, r, token, task)
              ELSE r = wh

\* A Move has changed the task of an entry that stands second in its list,
\* with a Reserved cell and a vacant cell in the slab.
MoveTimeoutFrameWitness ==
    /\ \E t \in Live(wh) :
          /\ wh.slab.entries[t].task = 2
          /\ wh.slab.entries[t].prev # EMPTY
    /\ \E t \in Tokens : IsReserved(wh, t)
    /\ Available(wh) > 0

(***************************************************************************)
(* Properties of the set-queue under concurrent calls                      *)
(***************************************************************************)
\* The threads between their compare_and_swap and their store on node i.
Holders(i) ==
    {x \in DOMAIN th.t :
        th.t[x].pc \in {"read", "write", "store"} /\ NodeOf(sq, th.t[x].pos) = i}

\* C34: whatever the interleaving of the producers' push_exch calls with
\* the worker's pop_exch calls, a push_exch that won its compare_and_swap
\* reads Token(T) from its node and a pop_exch that won its reads a
\* Timeout (no thread reaches unreachable!()), no two threads are between
\* compare_and_swap and store on one node, and the token in every triple
\* pop_exch has returned is the token push_exch returned to the producer of
\* that request.
ExchangeSlotsAlternate ==
    /\ \A x \in DOMAIN th.t : th.t[x].pc # "unreachable"
    /\ \A i \in DOMAIN sq.buffer : Cardinality(Holders(i)) <= 1
    /\ \A x \in Producers :
          th.t[x].pc \in {"read"} => sq.buffer[NodeOf(sq, th.t[x].pos)].value.kind = "Token"
    /\ th.t[Popper].pc = "read" =>
          sq.buffer[NodeOf(sq, th.t[Popper].pos)].value.kind = "Timeout"
    /\ \A k \in 1 .. Len(th.popped) :
          \E r \in th.pushed : r.sid = th.popped[k].sid /\ r.token = th.popped[k].token

\* The ring has gone round: a producer is about to publish a request that
\* carries a token supplied by an earlier pop_exch while the worker is
\* inside pop_exch on the other node, and requests of both producers have
\* been popped.
ExchangeSlotsAlternateWitness ==
    /\ \E p \in Producers :
          /\ th.t[p].pc = "store"
          /\ th.t[p].token >= RoundCapacity(ChannelCapacity)
    /\ th.t[Popper].pc = "write"
    /\ \A p \in Producers : \E k \in 1 .. Len(th.popped) : th.popped[k].sid[1] = p

\* The request named sid is in the queue: published in a node and not yet
\* claimed by pop_exch, or read out by a pop_exch that has not returned.
InQueue(sid) ==
    \/ \E i \in DOMAIN sq.buffer :
          /\ sq.buffer[i].value.kind = "Timeout"
          /\ sq.buffer[i].value.sid = sid
    \/ /\ IsSome(th.t[Popper].value)
       /\ th.t[Popper].pc \in {"write", "store"}
       /\ Unwrap(th.t[Popper].value).sid = sid

\* C35: the set-queue neither loses, duplicates nor reorders requests:
\* every request push_exch returned Ok for has been returned by one
\* pop_exch or is still in the queue, never both and never twice; the k-th
\* triple popped is the request of enqueue position k-1; and in every state
\* 0 <= enqueue_pos - dequeue_pos <= capacity.
SetQueueFifo ==
    /\ 0 <= sq.enqueue_pos - sq.dequeue_pos
    /\ sq.enqueue_pos - sq.dequeue_pos <= sq.mask + 1
    /\ \A k \in 1 .. Len(th.popped) :
          /\ th.popped[k].pos = k - 1
          /\ ~InQueue(th.popped[k].sid)
          /\ \A j \in 1 .. Len(th.popped) :
                th.popped[j].sid = th.popped[k].sid => j = k
    /\ \A r \in th.pushed :
          \/ InQueue(r.sid)
          \/ \E k \in 1 .. Len(th.popped) :
                th.popped[k].sid = r.sid /\ th.popped[k].pos = r.pos

\* The ring has gone round more than once with requests of both producers
\* popped, it was full at some moment, and a request is waiting in it.
SetQueueFifoWitness ==
    /\ Len(th.popped) > sq.mask + 1
    /\ th.full # {}
    /\ \A p \in Producers : \E k \in 1 .. Len(th.popped) : th.popped[k].sid[1] = p
    /\ \E r \in th.pushed : InQueue(r.sid)
    /\ th.t[Popper].pc = "idle"

\* C36: push_exch returns Err only when the set-queue is full, i.e. when
\* `capacity` positions are claimed by pushes that no completed pop_exch
\* has freed; the Err carries the caller's own task; the failed call has
\* stored nothing (enqueue_pos, dequeue_pos and every node's sequence and
\* value are as the other threads left them); and no call goes round its
\* loop while enqueue_pos is still the position it loaded: on a full queue
\* it returns at its first load of the sequence.
PushFailsOnlyWhenFull ==
    /\ \A n \in th.full : n = sq.mask + 1
    /\ \A p \in Producers :
          /\ ~th.t[p].spun
          /\ (IsSome(th.t[p].ret) /\ ~Unwrap(th.t[p].ret).ok) =>
                /\ ~th.t[p].wrote
                /\ Unwrap(th.t[p].ret).task = RequestOf(p, th.t[p].calls).task

\* A push_exch has returned Err after the ring had gone round, while the
\* other producer's push was between its compare_and_swap and its store.
PushFailsOnlyWhenFullWitness ==
    /\ \E p \in Producers :
          /\ th.t[p].pc = "idle"
          /\ IsSome(th.t[p].ret)
          /\ ~Unwrap(th.t[p].ret).ok
          /\ \E o \in Producers \ {p} : th.t[o].pc \in {"read", "write", "store"}
    /\ Len(th.popped) >= 1
    /\ th.full # {}

(***************************************************************************)
(* Properties of the wheel at capacity                                     *)
(***************************************************************************)
\* C37 (as stated): a request that was in the set-queue when a
\* wheel.reserve() of the set loop returned None is popped by a later pass
\* of the worker once a fire or a cancel has freed a slab cell.  A worker
\* thread that has ended makes no later pass, so the claim allows no state
\* in which the thread has ended while a cell is free and such a request
\* is still in the set-queue.
KeptRequestIsPopped ==
    (wk.pc = "panicked" /\ IsSome(ReserveToken(wh))) => Pending(sq) \cap kept = {}

(***************************************************************************)
(* Properties of mpmc::Queue under concurrent calls                        *)
(***************************************************************************)
\* C38: whatever the interleaving of the producers' push calls with the
\* consumer's pop calls on mpmc::Queue, the token push returns is the token
\* its node held when the push claimed it, the pop that returns a value
\* returns with it the token the push of that value returned, and no token
\* is returned by two pushes unless a pop supplied it again in between
\* (here every pop supplies a token not used before, so never).
QueueTokenPairing ==
    /\ \A p \in Producers :
          (IsSome(th.t[p].ret) /\ Unwrap(th.t[p].ret).ok) =>
             Unwrap(th.t[p].ret).token = th.t[p].token
    /\ \A k \in 1 .. Len(th.popped) : \A r \in th.pushed :
          r.sid = th.popped[k].sid => r.token = th.popped[k].token
    /\ \A r1 \in th.pushed : \A r2 \in th.pushed :
          r1.token = r2.token => r1 = r2

(***************************************************************************)
(* Properties of Worker::spawn                                             *)
(***************************************************************************)
\* C39: for every Builder the reservation of one token per node of the
\* set-queue in Worker::spawn succeeds (no panic), and from the return of
\* spawn on wheel.available() is at least the `capacity` spawn was given.
CapacityDiscipline ==
    /\ last.ret # "panic"
    /\ Spawned => Available(wh) >= SpawnCapacity


(***************************************************************************)
(* The tick arithmetic of set_timeout at its full width                    *)
(*                                                                         *)
(* Ticks are u64 in the code, and set_timeout narrows them with            *)
(* `tick as u32`.  Values past 32 bits are held here as three limbs of 16  *)
(* bits, the most significant first; instants are held as their distance   *)
(* from the wheel's `start` in ms.                                         *)
(***************************************************************************)
Limb == 65536

\* The highest top limb and the highest of the small low limbs tried.
MaxHigh == 2
MaxLow == 3

\* Wheel::time_to_ticks: `ms / self.tick_ms`, by long division.
time_to_ticksWide(w, time) ==
    LET n1 == (time[1] % w.tick_ms) * Limb + time[2]
        n0 == (n1 % w.tick_ms) * Limb + time[3]
    IN  << time[1] \div w.tick_ms, n1 \div w.tick_ms, n0 \div w.tick_ms >>

\* Wheel::set_timeout: `if tick <= self.cur_wheel_tick` the request goes to
\* cur_wheel_tick + 1.
PlaceTickWide(cur, tick) ==
    IF \/ tick[1] < cur[1]
       \/ tick[1] = cur[1] /\ tick[2] < cur[2]
       \/ tick[1] = cur[1] /\ tick[2] = cur[2] /\ tick[3] <= cur[3]
    THEN IF cur[3] + 1 < Limb THEN << cur[1], cur[2], cur[3] + 1 >>
         ELSE IF cur[2] + 1 < Limb THEN << cur[1], cur[2] + 1, 0 >>
         ELSE << cur[1] + 1, 0, 0 >>
    ELSE tick

\* Wheel::set_timeout: actual_tick = self.start +
\* Duration::from_millis(self.tick_ms) * (tick as u32).  The cast keeps the
\* two low limbs of the tick; the product itself is exact.
ActualTickWide(w, tick) ==
    LET p0 == w.start + w.tick_ms * tick[3]
        p1 == w.tick_ms * tick[2] + p0 \div Limb
    IN  << p1 \div Limb, p1 % Limb, p0 % Limb >>

\* start + tick_ms * tick, with the whole tick.
TickBoundaryWide(w, tick) ==
    LET p0 == w.start + w.tick_ms * tick[3]
        p1 == w.tick_ms * tick[2] + p0 \div Limb
    IN  << w.tick_ms * tick[1] + p1 \div Limb, p1 % Limb, p0 % Limb >>

\* Wheel::set_timeout(token, at, task) on a wheel whose cur_wheel_tick is
\* `cur`: the tick the entry is placed at, its slot and the `when` stored.
WideSetTimeout(cur, at) ==
    /\ last' = [op |-> "set_timeout",
                at |-> at,
                ret |-> LET tick == PlaceTickWide(cur, time_to_ticksWide(wh, at))
                        IN  [tick |-> tick,
                             wheel_idx |-> ticks_to_wheel_idx(wh, tick[3]),
                             when |-> ActualTickWide(wh, tick)]]
    /\ UNCHANGED << now, wh, sq, mq, wk, sl, note, fired, cancelled, moved, stale, kept, timer, th, ad >>

\* The wheel's tick and the instant requested, on both sides of 2^32.
NextWide ==
    \E cur \in {<< h, m, l >> : h \in 0 .. MaxHigh - 1, m \in {0, Limb - 1}, l \in {0, Limb - 1}} :
       \E at \in {<< h, m, l >> : h \in 0 .. MaxHigh, m \in {0, Limb - 1},
                                  l \in (0 .. MaxLow) \cup {Limb - 1}} :
          WideSetTimeout(cur, at)

SpecWide == Init /\ [][NextWide]_vars

\* C40 (as stated): set_timeout stores when = start + tick_ms * tick for
\* the tick the request is placed at.
WhenIsTickBoundary ==
    last.op = "set_timeout" => last.ret.when = TickBoundaryWide(wh, last.ret.tick)

=============================================================================
